---------------------------- MODULE Spec2Model ----------------------------
(***************************************************************************)
(* A model of siard2sql (immortalvm/siard2sql): the translator of a SIARD  *)
(* archive into SQLite-compliant SQL.                                      *)
(*                                                                         *)
(* Strings of the program are TLA+ strings; a character is a string of     *)
(* length one (SubSeq(s, i, i)).  Bytes are the naturals 0..255.           *)
(*                                                                         *)
(* The module holds several specifications over one set of variables; the  *)
(* variables a specification does not use stay at their initial value.     *)
(*   SpecType     IDA_siard_utils::siard_type_to_sqlite3 and its cache     *)
(***************************************************************************)
EXTENDS Naturals, Integers, Sequences, FiniteSets, TLC

VARIABLES
    typecache,   \* siard_type_to_sqlite3: static unordered_map typecache
    tm_arg,      \* siard_type_to_sqlite3: the argument s of the last call
    tm_ret,      \* siard_type_to_sqlite3: the value the last call returned
    tm_hit,      \* the last call was served from the cache
    util,        \* the last call of a utility function: [f, arg, ret]
    argv,        \* main: the command line [argc, siardfile, sqlfile, schema_filter]
    cwd,         \* the working directory of the process
    dirstack,    \* IDA_file_utils::dirstack: the directories pushd left
    minizip,     \* the archive reader: [open_zips, pending, unz]
    files,       \* the regular files of the file system: path -> content
    dirs,        \* the directories of the file system
    mkdtemp_ok,  \* mkdtemp(3) succeeds
    sink,        \* the state of the output file: "ok", "unopenable" or "full"
    pc,          \* where the run stands
    calls,       \* the calls of IDA_siard2sql this process has made or is in
    M,           \* the IDA_SIARDmetadata object of IDA_siard2sql
    is,          \* tree_to_sql: index of the current schema (1-based)
    it,          \* tree_to_sql: index of the current table of the schema (1-based)
    seen_tables, \* tree_to_sql: set<string> seen_tables
    rep_tables,  \* tree_to_sql: set<pair<string,string>> rep_tables
    table_first_schema, \* tree_to_sql: map<string,string> table_first_schema
    iuk,         \* tree_to_sql: the unique index counter
    DataType_Table, \* the global Data Type Table
    C,           \* the IDA_SIARDcontent object of the current table
    ir,          \* IDA_SIARDcontent::tree_to_sql: index of the next row (1-based)
    sqlout,      \* the lines written to the SQL output, in order
    ret,         \* the value IDA_siard2sql returned
    exit_status  \* the value main returned

\* The archive reader with no archive open: open_zips maps the name of a
\* cached archive to its handle and index, pending is the set of handles to
\* close, unz maps each handle unzOpen64 returned and unzClose has not closed
\* to the members of its archive
NoZip == [open_zips |-> <<>>, pending |-> {}, unz |-> <<>>]

typeVars == <<typecache, tm_arg, tm_ret, tm_hit>>

envVars == <<argv, cwd, dirstack, minizip, files, dirs, mkdtemp_ok, sink>>

runVars ==
    <<pc, calls, M, is, it, seen_tables, rep_tables, table_first_schema, iuk,
      DataType_Table, C, ir, sqlout, ret, exit_status>>

vars == <<typeVars, util, envVars, runVars>>

-----------------------------------------------------------------------------
(* Strings *)

\* The i-th character of s (1-based); "" out of range.
CharAt(s, i) == IF i >= 1 /\ i <= Len(s) THEN SubSeq(s, i, i) ELSE ""

\* w occurs in s starting at position i.
MatchAt(s, i, w) ==
    /\ i >= 1
    /\ i + Len(w) - 1 <= Len(s)
    /\ SubSeq(s, i, i + Len(w) - 1) = w

\* std::regex_search of a literal pattern: w occurs somewhere in s.
Contains(s, w) == \E i \in 1..(Len(s) + 1) : MatchAt(s, i, w)

UpperLetters ==
    {"A","B","C","D","E","F","G","H","I","J","K","L","M",
     "N","O","P","Q","R","S","T","U","V","W","X","Y","Z"}

LowerLetters ==
    {"a","b","c","d","e","f","g","h","i","j","k","l","m",
     "n","o","p","q","r","s","t","u","v","w","x","y","z"}

Digits == {"0","1","2","3","4","5","6","7","8","9"}

\* ECMAScript \w
WordChars == UpperLetters \cup LowerLetters \cup Digits \cup {"_"}

\* ECMAScript \s (the characters of it the model's strings use)
SpaceChars == {" ", "\t", "\n", "\r", "\f"}

\* ECMAScript \b at the gap before position i of s (1 <= i <= Len(s)+1)
WordBoundary(s, i) ==
    (CharAt(s, i - 1) \in WordChars) # (CharAt(s, i) \in WordChars)

\* The printable ASCII characters of codes 32..95, in order.
ASCII_32_95 ==
    " !\"#$%&'()*+,-./0123456789:;<=>?@ABCDEFGHIJKLMNOPQRSTUVWXYZ[\\]^_"

\* The printable ASCII characters of codes 97..126, in order.
ASCII_97_126 == "abcdefghijklmnopqrstuvwxyz{|}~"

\* The byte of a character of a std::string (printable ASCII in the model).
Ord(c) ==
    IF \E i \in 1..Len(ASCII_32_95) : SubSeq(ASCII_32_95, i, i) = c
    THEN 31 + (CHOOSE i \in 1..Len(ASCII_32_95) : SubSeq(ASCII_32_95, i, i) = c)
    ELSE 96 + (CHOOSE i \in 1..Len(ASCII_97_126) : SubSeq(ASCII_97_126, i, i) = c)

UpperString == "ABCDEFGHIJKLMNOPQRSTUVWXYZ"
LowerString == "abcdefghijklmnopqrstuvwxyz"

\* tolower of one character
LowerChar(c) ==
    IF c \in UpperLetters
    THEN LET i == CHOOSE k \in 1..26 : SubSeq(UpperString, k, k) = c
         IN  SubSeq(LowerString, i, i)
    ELSE c

\* The string with every character lowered (what regex::icase compares).
RECURSIVE LowerStr(_)
LowerStr(s) ==
    IF s = "" THEN ""
    ELSE LowerChar(SubSeq(s, 1, 1)) \o LowerStr(SubSeq(s, 2, Len(s)))

\* std::to_string of an unsigned long
RECURSIVE to_string(_)
to_string(n) ==
    IF n < 10 THEN SubSeq("0123456789", n + 1, n + 1)
    ELSE to_string(n \div 10) \o SubSeq("0123456789", (n % 10) + 1, (n % 10) + 1)

\* The position of the first occurrence of w in s at or after i; 0 when none.
RECURSIVE FindFrom(_, _, _)
FindFrom(s, w, i) ==
    IF i + Len(w) - 1 > Len(s) THEN 0
    ELSE IF MatchAt(s, i, w) THEN i
    ELSE FindFrom(s, w, i + 1)


-----------------------------------------------------------------------------
(* IDA_siard_utils: literals of cell values *)

HexDigits == "0123456789abcdef"

\* sprintf(uu, "%02x", b)
Hex2(b) ==
    SubSeq(HexDigits, (b \div 16) + 1, (b \div 16) + 1)
       \o SubSeq(HexDigits, (b % 16) + 1, (b % 16) + 1)

\* The bytes a[k..], each as two hexadecimal digits
RECURSIVE HexOf(_)
HexOf(a) == IF a = <<>> THEN "" ELSE Hex2(Head(a)) \o HexOf(Tail(a))

\* string_to_blob_literal: the loop over the characters s[k..] of a string,
\* setfill('0') << setw(2) << hex of each
RECURSIVE HexOfString(_, _)
HexOfString(s, k) ==
    IF k > Len(s) THEN "" ELSE Hex2(Ord(CharAt(s, k))) \o HexOfString(s, k + 1)

\* string_to_blob_literal
string_to_blob_literal(s) == "X'" \o HexOfString(s, 1) \o "'"

\* char_array_to_blob_literal: setfill('0') << setw(2) << hex of each byte
char_array_to_blob_literal(a) == "X'" \o HexOf(a) \o "'"

\* sprintf(uu, "%02x%02x%02x%02x", buf[k*4], ..., buf[k*4+3])
Hex8(buf, k) ==
    Hex2(buf[4 * k + 1]) \o Hex2(buf[4 * k + 2]) \o Hex2(buf[4 * k + 3]) \o Hex2(buf[4 * k + 4])

\* for (k = 0; k < n4; k++): four bytes of the buffer at a time
RECURSIVE HexQuads(_, _, _)
HexQuads(buf, k, n4) ==
    IF k >= n4 THEN "" ELSE Hex8(buf, k) \o HexQuads(buf, k + 1, n4)

\* A slip of the loop body: the bytes after the last four are left out.
HexBlock_quads_only(buf) == HexQuads(buf, 0, Len(buf) \div 4)

\* The body of the loop of file_to_blob_literal_append for the n bytes of
\* the buffer: n/4 times four bytes, then the bytes from n4*4 on
HexBlock(buf) ==
    HexQuads(buf, 0, Len(buf) \div 4)
       \o HexOf(SubSeq(buf, 4 * (Len(buf) \div 4) + 1, Len(buf)))

\* The size of the buffer the file encoders read into
FILE_BLOB_BUFF_SIZE == 10240

\* while ((n = fread(buf, 1, size, f)) > 0) of file_to_blob_literal, for what
\* is left of the file: every byte of the buffer by itself
RECURSIVE file_blocks(_, _)
file_blocks(left, size) ==
    IF left = <<>> THEN ""
    ELSE HexOf(SubSeq(left, 1, IF Len(left) < size THEN Len(left) ELSE size))
            \o file_blocks(SubSeq(left, (IF Len(left) < size THEN Len(left) ELSE size) + 1, Len(left)), size)

\* while ((n = fread(buf, 1, size, f)) > 0) of file_to_blob_literal_append,
\* for what is left of the file
RECURSIVE file_blocks_append(_, _)
file_blocks_append(left, size) ==
    IF left = <<>> THEN ""
    ELSE HexBlock(SubSeq(left, 1, IF Len(left) < size THEN Len(left) ELSE size))
            \o file_blocks_append(SubSeq(left, (IF Len(left) < size THEN Len(left) ELSE size) + 1, Len(left)), size)

\* char_array_to_blob_literal_append: what it appends for the byte array a
char_array_to_blob_literal_append(a) == "X'" \o HexOf(a) \o "'"

\* A slip of the quoting: the quotes of the text are not doubled.
EscapeQuotes_undoubled(s) == s

\* regex_replace(s, "'", "''")
RECURSIVE EscapeQuotes(_)
EscapeQuotes(s) ==
    IF s = "" THEN ""
    ELSE (IF SubSeq(s, 1, 1) = "'" THEN "''" ELSE SubSeq(s, 1, 1))
            \o EscapeQuotes(SubSeq(s, 2, Len(s)))

\* A slip of the quoting: the doubled text is left without its wrapper.
enclose_sqlite_single_quote_unwrapped(s) == EscapeQuotes(s)

\* enclose_sqlite_single_quote
enclose_sqlite_single_quote(s) == "'" \o EscapeQuotes(s) \o "'"

\* siard_special(&s[i]): the four characters \u00 stand at position i
siard_special(s, i) == MatchAt(s, i, "\\u00")

\* has_siard_special_chars
has_siard_special_chars(s) == \E i \in 1..Len(s) : siard_special(s, i)

IsHexDigit(c) == c # "" /\ \E k \in 1..16 : SubSeq(HexDigits, k, k) = LowerChar(c)

HexVal(c) == (CHOOSE k \in 1..16 : SubSeq(HexDigits, k, k) = LowerChar(c)) - 1

\* strtol that takes the capital letters A to F for no digits
strtol_00_lowercase(c1, c2) ==
    IF ~(c1 # "" /\ Contains(HexDigits, c1)) THEN 0
    ELSE IF ~(c2 # "" /\ Contains(HexDigits, c2)) THEN HexVal(c1)
    ELSE 16 * HexVal(c1) + HexVal(c2)

\* (unsigned char) strtol(hex, NULL, 16) of hex = {'0', '0', c1, c2, 0}: the
\* digits up to the first character that is no hexadecimal digit (the end of
\* the string read as the terminating 0)
strtol_00(c1, c2) ==
    IF ~IsHexDigit(c1) THEN 0
    ELSE IF ~IsHexDigit(c2) THEN HexVal(c1)
    ELSE 16 * HexVal(c1) + HexVal(c2)

\* siard_decode: the loop from index i, the bytes stored in s_decod
RECURSIVE siard_decode_from(_, _)
siard_decode_from(s, i) ==
    IF i > Len(s) THEN <<>>
    ELSE IF siard_special(s, i)
         THEN <<strtol_00(CharAt(s, i + 4), CharAt(s, i + 5))>>
                 \o siard_decode_from(s, i + 6)
         ELSE <<Ord(SubSeq(s, i, i))>> \o siard_decode_from(s, i + 1)

\* siard_decode
siard_decode(s) == siard_decode_from(s, 1)

-----------------------------------------------------------------------------
(* IDA_file_utils: paths *)

\* The value of a map m at key k, d when k is no key of m.
Lookup(m, k, d) == IF k \in DOMAIN m THEN m[k] ELSE d

\* F(e), for an e that is computed once
With(e, F(_)) == CHOOSE v \in {F(x) : x \in {e}} : TRUE

\* is_absolute
is_absolute(path) == path # "" /\ SubSeq(path, 1, 1) = "/"

\* is_prefix (std::mismatch over the prefix)
is_prefix(prefix, str) ==
    Len(prefix) <= Len(str) /\ SubSeq(str, 1, Len(prefix)) = prefix

\* The components of a path: the strings between its slashes.
RECURSIVE SplitPath(_)
SplitPath(path) ==
    LET k == FindFrom(path, "/", 1) IN
    IF k = 0 THEN <<path>>
    ELSE <<SubSeq(path, 1, k - 1)>> \o SplitPath(SubSeq(path, k + 1, Len(path)))

\* resolve_path_internal with nocheck: empty and "." components are dropped,
\* ".." drops the component before it; acc is the resolved part.
RECURSIVE resolve_path_internal(_, _)
resolve_path_internal(comps, acc) ==
    IF comps = <<>> THEN acc
    ELSE LET c == Head(comps) IN
         IF c = "" \/ c = "." THEN resolve_path_internal(Tail(comps), acc)
         ELSE IF c = ".."
              THEN resolve_path_internal(Tail(comps),
                       IF acc = <<>> THEN acc ELSE SubSeq(acc, 1, Len(acc) - 1))
              ELSE resolve_path_internal(Tail(comps), Append(acc, c))

RECURSIVE JoinPath(_)
JoinPath(comps) ==
    IF comps = <<>> THEN "" ELSE "/" \o Head(comps) \o JoinPath(Tail(comps))

\* realpath_internal with nocheck, the working directory being wd
realpath_nocheck(path, wd) ==
    With(JoinPath(resolve_path_internal(
             SplitPath(IF is_absolute(path) THEN path ELSE wd \o "/" \o path), <<>>)),
         LAMBDA r : IF r = "" THEN "/" ELSE r)

\* get_canonical_file_name: the syntactic real path, "" for the empty path
get_canonical_file_name(path) ==
    IF path = "" THEN "" ELSE realpath_nocheck(path, cwd)

\* get_basename: basename(3), the last non-empty component
get_basename(path) ==
    LET raw == SelectSeq(SplitPath(path), LAMBDA c : c # "") IN
    IF path = "" THEN "."
    ELSE IF raw = <<>> THEN "/"
    ELSE raw[Len(raw)]

(* A file content is a record [k, v]:                                       *)
(*   k = "zip"    a zip archive, v maps each member name to its content      *)
(*   k = "xml"    a well-formed XML document, v is its parsed root           *)
(*   k = "bytes"  any other file, v is its sequence of bytes                 *)

ZipFile(members) == [k |-> "zip", v |-> members]
XmlFile(root) == [k |-> "xml", v |-> root]
BytesFile(b) == [k |-> "bytes", v |-> b]

\* The bytes fread delivers from a file; of an archive and of an XML document
\* the model keeps the first bytes only ("PK" and "<").
BytesOf(content) ==
    CASE content.k = "bytes" -> content.v
      [] content.k = "zip" -> <<80, 75>>
      [] OTHER -> <<60>>

\* access(path, R_OK) == 0 in the file system fs, the working directory
\* being wd
Readable(fs, wd, path) ==
    /\ path # ""
    /\ With(realpath_nocheck(path, wd), LAMBDA p : p \in DOMAIN fs \/ p \in dirs)

\* is_directory, the working directory being wd
is_directory(path, wd) == path # "" /\ realpath_nocheck(path, wd) \in dirs

\* get_realpath: realpath(3), "" when the path does not exist
get_realpath(path) ==
    IF Readable(files, cwd, path) THEN realpath_nocheck(path, cwd) ELSE ""

\* The directory mkdtemp makes from the template of IDA_SIARDmetadata
TmpDirOfRun == "/tmp/_s2s_tmpAAAAAA"

\* The directory mkdtemp makes from the default template of create_temp_dir
TmpDirDefault == "/tmp/tmpdir.AAAAAAA"

\* create_temp_dir: the directory made, "" when mkdtemp fails
create_temp_dir(made) == IF mkdtemp_ok THEN made ELSE ""

\* strcasestr(path, w) != NULL
strcasestr(path, w) == Contains(LowerStr(path), w)

\* regex_search(z, m, zre) for zre = (^.*?\.(zip|siard))/(.*$), icase: the
\* end of the shortest prefix of z that ends in .zip or .siard and is followed
\* by a slash; 0 when there is none
RECURSIVE zre_end(_, _)
zre_end(z, e) ==
    IF e >= Len(z) THEN 0
    ELSE IF /\ CharAt(z, e + 1) = "/"
            /\ \/ (e >= 4 /\ LowerStr(SubSeq(z, e - 3, e)) = ".zip")
               \/ (e >= 6 /\ LowerStr(SubSeq(z, e - 5, e)) = ".siard")
         THEN e
         ELSE zre_end(z, e + 1)

\* unzipURI, lines 847-857: the chain of .zip/.siard files of z
RECURSIVE zip_chain(_)
zip_chain(z) ==
    IF z = "" THEN <<>>
    ELSE LET e == zre_end(z, 1) IN
         IF e = 0 THEN <<z>>
         ELSE <<SubSeq(z, 1, e)>> \o zip_chain(SubSeq(z, e + 2, Len(z)))

\* IDA_unzip(zipfile, member) succeeds, the working directory being wd
unzip_ok(fs, wd, zipfile, member) ==
    /\ zipfile # ""
    /\ With(realpath_nocheck(zipfile, wd), LAMBDA zp :
          /\ zp \in DOMAIN fs
          /\ fs[zp].k = "zip"
          /\ member \in DOMAIN fs[zp].v)

\* f with the value v at x, x added to its domain when needed
Put(f, x, v) == [y \in DOMAIN f \cup {x} |-> IF y = x THEN v ELSE f[y]]

\* unzipURI, lines 875-893: the loop from index i (1-based: zips[i] is the
\* archive, zips[i + 1] the member), in working directory tmpdir
RECURSIVE unzip_loop(_, _, _, _)
unzip_loop(zips, i, fs, tmpdir) ==
    IF i >= Len(zips) THEN [zips |-> zips, files |-> fs]
    ELSE IF unzip_ok(fs, tmpdir, zips[i], zips[i + 1])
         THEN unzip_loop([zips EXCEPT ![i + 1] = tmpdir \o "/" \o zips[i + 1]],
                         i + 1,
                         Put(fs, realpath_nocheck(zips[i + 1], tmpdir),
                             fs[realpath_nocheck(zips[i], tmpdir)].v[zips[i + 1]]),
                         tmpdir)
         ELSE IF is_directory(zips[i], tmpdir)
              THEN unzip_loop([zips EXCEPT ![i + 1] = zips[i] \o "/" \o zips[i + 1]],
                              i + 1, fs, tmpdir)
              ELSE IF i + 2 <= Len(zips)
                   THEN unzip_loop([zips EXCEPT ![i + 2] = zips[i + 1] \o "/" \o zips[i + 2],
                                                ![i + 1] = zips[i]],
                                   i + 1, fs, tmpdir)
                   ELSE unzip_loop(zips, i + 1, fs, tmpdir)

\* unzipURI(zippath, tmpdir) in the file system fs: the path returned, the
\* file system and the value of tmpdir it leaves
unzipURI(zippath, tmpdir, fs) ==
    IF ~strcasestr(zippath, ".zip") /\ ~strcasestr(zippath, ".siard")
    THEN [ret |-> zippath, files |-> fs, tmpdir |-> tmpdir]
    ELSE With(zip_chain(get_canonical_file_name(zippath)), LAMBDA zips :
         IF Len(zips) <= 1
         THEN [ret |-> zippath, files |-> fs, tmpdir |-> tmpdir]
         ELSE With(IF tmpdir = "" THEN create_temp_dir(TmpDirDefault) ELSE tmpdir,
              LAMBDA td :
              IF td = "" \/ (tmpdir # "" /\ tmpdir \notin dirs)
              THEN [ret |-> "", files |-> fs, tmpdir |-> td]
              ELSE With(unzip_loop(zips, 1, fs, td), LAMBDA r :
                   [ret    |-> IF Readable(r.files, cwd, r.zips[Len(r.zips)])
                               THEN r.zips[Len(r.zips)] ELSE "",
                    files  |-> r.files,
                    tmpdir |-> td])))

\* delete_temp_file(tmpdir, filename): the file system it leaves
delete_temp_file(tmpdir, filename, fs) ==
    IF is_prefix(tmpdir, get_canonical_file_name(filename))
    THEN [q \in DOMAIN fs \ {realpath_nocheck(filename, cwd)} |-> fs[q]]
    ELSE fs

\* fopen(file, "r") succeeds in the file system fs
fopen_ok(file, fs) == file # "" /\ realpath_nocheck(file, cwd) \in DOMAIN fs

\* file_to_blob_literal with a buffer of size bytes: the literal returned
\* for the file in fs
file_to_blob_literal_sized(file, fs, size) ==
    IF ~fopen_ok(file, fs) THEN "X''"
    ELSE "X'" \o file_blocks(BytesOf(fs[realpath_nocheck(file, cwd)]), size) \o "'"

\* file_to_blob_literal
file_to_blob_literal(file, fs) == file_to_blob_literal_sized(file, fs, FILE_BLOB_BUFF_SIZE)

\* file_to_blob_literal_append with a buffer of size bytes: what it appends
\* for the file in fs
file_to_blob_literal_append_sized(file, fs, size) ==
    IF ~fopen_ok(file, fs) THEN "X''"
    ELSE "X'" \o file_blocks_append(BytesOf(fs[realpath_nocheck(file, cwd)]), size) \o "'"

\* file_to_blob_literal_append
file_to_blob_literal_append(file, fs) ==
    file_to_blob_literal_append_sized(file, fs, FILE_BLOB_BUFF_SIZE)

-----------------------------------------------------------------------------
(* IDA_SIARD_type_attribute, IDA_SIARDtypenode, IDA_SIARDdatatype_table *)

(* An element of metadata.xml that declares a type use (a column, an         *)
(* attribute of a type, a field) is the record of the texts of its children *)
(*   [name, type, typeSchema, typeName, cardinality, base, lobFolder,       *)
(*    fields]                                                                *)
(* with "" for a missing child and cardinality already read by atol.        *)

\* IDA_SIARD_type_attribute(XMLElement *att)
type_attribute(att) ==
    [name |-> att.name, type |-> att.type, typeSchema |-> att.typeSchema,
     typeName |-> att.typeName, cardinality |-> att.cardinality,
     base |-> att.base]

\* get_extended_category
get_extended_category(a) ==
    IF a.cardinality > 0 THEN "array"
    ELSE IF a.type # "" THEN "simple"
    ELSE IF a.typeSchema # "" /\ a.typeName # "" THEN "udt"
    ELSE IF a.base # "" THEN "distinct"
    ELSE "unknown"

\* getTypeOrTypeName
getTypeOrTypeName(a) == IF a.type = "" THEN a.typeName ELSE a.type

\* IDA_SIARDtypenode(): the node with the empty name
EmptyTypenode == [schema |-> "", name |-> "", category |-> "", attribute_list |-> <<>>]

\* IDA_SIARDtypenode(schema_name, suffix, type, typeSchema, typeName, cardinality)
array_typenode(schema_name, suffix, type, typeSchema, typeName, cardinality) ==
    [schema |-> schema_name,
     name |-> "ARRAY" \o to_string(cardinality) \o "_" \o suffix,
     category |-> "array",
     attribute_list |->
        <<[name |-> "ARRAY_ATT", type |-> type, typeSchema |-> typeSchema,
           typeName |-> typeName, cardinality |-> cardinality, base |-> ""]>>]

\* IDA_SIARDtypenode(schema_name, type_name, category, base)
distinct_typenode(schema_name, type_name, base) ==
    [schema |-> schema_name, name |-> type_name, category |-> "distinct",
     attribute_list |->
        <<[name |-> "DISTINCT_ATT", type |-> "", typeSchema |-> "",
           typeName |-> "", cardinality |-> 0, base |-> base]>>]

\* IDA_SIARDdatatype_table(): the table after construction
EmptyDataTypeTable ==
    [datatype_dict |-> <<>>, datatype_order |-> <<>>,
     datatype_count |-> 0, datatype_array_count |-> 0]

\* get_typenode
get_typenode(dtt, type_schema, type_name) ==
    Lookup(dtt.datatype_dict, <<type_schema, type_name>>, EmptyTypenode)

\* add_type
add_type(dtt, type_schema, type_name, typenode) ==
    [dtt EXCEPT
        !.datatype_dict = Put(@, <<type_schema, type_name>>, typenode),
        !.datatype_order = Put(@, <<type_schema, type_name>>, dtt.datatype_count),
        !.datatype_count = @ + 1]

\* A slip of add_array_data_type: the counter of the arrays is left as it is.
add_array_data_type_uncounted(dtt, schema_name, e) ==
    LET suffix == e.name \o "_" \o to_string(dtt.datatype_array_count)
        tnode  == array_typenode(schema_name, suffix, e.type, e.typeSchema,
                                 e.typeName, e.cardinality)
    IN  [dtt  |-> add_type(dtt, schema_name, tnode.name, tnode),
         name |-> tnode.name]

\* add_array_data_type(schema_name, e): the table it leaves and the name of
\* the new array type
add_array_data_type(dtt, schema_name, e) ==
    LET suffix == e.name \o "_" \o to_string(dtt.datatype_array_count)
        tnode  == array_typenode(schema_name, suffix, e.type, e.typeSchema,
                                 e.typeName, e.cardinality)
    IN  [dtt  |-> add_type([dtt EXCEPT !.datatype_array_count = @ + 1],
                           schema_name, tnode.name, tnode),
         name |-> tnode.name]

\* add_complex_data_type, lines 2366-2393: the attributes of a udt from index
\* ia on; tn is the type node so far
RECURSIVE add_udt_attributes(_, _, _, _, _)
add_udt_attributes(dtt, schema_name, attributes, ia, tn) ==
    IF ia > Len(attributes) THEN [dtt |-> dtt, typenode |-> tn]
    ELSE LET A   == type_attribute(attributes[ia])
             cat == get_extended_category(A)
         IN  IF cat = "array"
             THEN LET r == add_array_data_type(dtt, schema_name, attributes[ia]) IN
                  add_udt_attributes(r.dtt, schema_name, attributes, ia + 1,
                     [tn EXCEPT !.attribute_list =
                         Append(@, [A EXCEPT !.type = "", !.cardinality = 0,
                                             !.typeSchema = schema_name,
                                             !.typeName = r.name])])
             ELSE IF cat = "distinct"
                  THEN add_udt_attributes(dtt, schema_name, attributes, ia + 1, tn)
                  ELSE add_udt_attributes(dtt, schema_name, attributes, ia + 1,
                          [tn EXCEPT !.attribute_list = Append(@, A)])

(* A <type> of a schema is the record [category, name, base, has_attributes, *)
(* attributes].                                                              *)

\* add_complex_data_type: the types of one schema from index k on
RECURSIVE add_complex_data_type(_, _, _, _)
add_complex_data_type(dtt, schema_name, types, k) ==
    IF k > Len(types) THEN dtt
    ELSE LET ty == types[k] IN
         IF ty.category = "" \/ ty.name = ""
         THEN add_complex_data_type(dtt, schema_name, types, k + 1)
         ELSE IF ty.category = "distinct"
              THEN add_complex_data_type(
                      add_type(dtt, schema_name, ty.name,
                               distinct_typenode(schema_name, ty.name, ty.base)),
                      schema_name, types, k + 1)
         ELSE IF ty.category = "udt" /\ ty.has_attributes
              THEN With(add_udt_attributes(dtt, schema_name, ty.attributes, 1,
                            [schema |-> schema_name, name |-> ty.name,
                             category |-> "udt", attribute_list |-> <<>>]),
                        LAMBDA r :
                        add_complex_data_type(
                            add_type(r.dtt, schema_name, ty.name, r.typenode),
                            schema_name, types, k + 1))
         ELSE add_complex_data_type(dtt, schema_name, types, k + 1)

\* tree_to_sql, lines 2576-2580: the first pass over the schemas from index k
RECURSIVE register_types(_, _, _)
register_types(dtt, schemas, k) ==
    IF k > Len(schemas) THEN dtt
    ELSE register_types(
            add_complex_data_type(dtt, schemas[k].name, schemas[k].types, 1),
            schemas, k + 1)

-----------------------------------------------------------------------------
(* IDA_SIARDlobfolder *)

\* A slip of the combination: an absolute folder is put below its parent too.
combine_lobfolders_below(parent_lobfolder, lobfolder) ==
    IF parent_lobfolder = "" THEN lobfolder
    ELSE IF lobfolder = "" THEN parent_lobfolder
    ELSE parent_lobfolder \o "/" \o lobfolder

\* combine_lobfolders
combine_lobfolders(parent_lobfolder, lobfolder) ==
    IF parent_lobfolder = "" \/ is_absolute(lobfolder) THEN lobfolder
    ELSE IF lobfolder = "" THEN parent_lobfolder
    ELSE parent_lobfolder \o "/" \o lobfolder

\* generate_real_lobfolder
generate_real_lobfolder(siardURI, lobfolder) ==
    get_canonical_file_name(
        IF is_absolute(lobfolder) THEN lobfolder
        ELSE combine_lobfolders(siardURI, lobfolder))

\* stoul of a string of digits
RECURSIVE stoul(_)
stoul(d) ==
    IF d = "" THEN 0
    ELSE 10 * stoul(SubSeq(d, 1, Len(d) - 1))
            + (CHOOSE k \in 0..9 : SubSeq("0123456789", k + 1, k + 1)
                                      = SubSeq(d, Len(d), Len(d)))

\* The start of the longest run of digits of s that ends at position j.
RECURSIVE DigitsStart(_, _)
DigitsStart(s, j) ==
    IF j >= 1 /\ SubSeq(s, j, j) \in Digits THEN DigitsStart(s, j - 1) ELSE j + 1

\* init_element_lobfolders, lines 1613-1619: a name ending in [<digits>]
\* becomes a<index>
lobfolder_element_name(name) ==
    LET n == Len(name)
        b == DigitsStart(name, n - 1)
    IN  IF /\ n >= 3
           /\ SubSeq(name, n, n) = "]"
           /\ b <= n - 1
           /\ b >= 2
           /\ SubSeq(name, b - 1, b - 1) = "["
        THEN "a" \o to_string(stoul(SubSeq(name, b, n - 1)))
        ELSE name

\* init_element_lobfolders; info is the map lobfolder_info so far.  The
\* fields of el are visited from index k by init_fields_lobfolders.
RECURSIVE init_element_lobfolders(_, _, _, _, _)
RECURSIVE init_fields_lobfolders(_, _, _, _, _, _)
init_element_lobfolders(info, siardURI, el, treepath, curr_lobfolder) ==
    LET name == lobfolder_element_name(el.name)
        new_treepath == treepath \o "/" \o name
        acc == combine_lobfolders(curr_lobfolder, el.lobFolder)
        info1 == IF acc # ""
                 THEN Put(info, new_treepath,
                          [lobfolder |-> el.lobFolder, acc_lobfolder |-> acc,
                           real_lobfolder |-> generate_real_lobfolder(siardURI, acc)])
                 ELSE info
    IN  IF name = "" THEN info
        ELSE init_fields_lobfolders(info1, siardURI, el.fields, 1, new_treepath, acc)

init_fields_lobfolders(info, siardURI, fields, k, treepath, curr_lobfolder) ==
    IF k > Len(fields) THEN info
    ELSE init_fields_lobfolders(
            init_element_lobfolders(info, siardURI, fields[k], treepath, curr_lobfolder),
            siardURI, fields, k + 1, treepath, curr_lobfolder)

\* IDA_SIARDlobfolder::init: the map lobfolder_info of a column
lobfolder_init(siardURI, column, siard_lobfolder) ==
    init_element_lobfolders(
        IF siard_lobfolder # ""
        THEN ("" :> [lobfolder |-> siard_lobfolder, acc_lobfolder |-> siard_lobfolder,
                     real_lobfolder |-> generate_real_lobfolder(siardURI, siard_lobfolder)])
        ELSE <<>>,
        siardURI, column, "", siard_lobfolder)

\* get_real_lobfoler
get_real_lobfoler(info, treepathkey) ==
    IF treepathkey \in DOMAIN info THEN info[treepathkey].real_lobfolder ELSE ""

-----------------------------------------------------------------------------
(* IDA_siard_utils: the type mapper *)

COLTYPES == {"BLOB", "NUMERIC", "INTEGER", "REAL", "TEXT"}

\* static regex re_int(R"((BIG|SMALL)INT|INTEGER|\bINT\b|BOOL)")
re_int(s) ==
    \/ Contains(s, "BIGINT")
    \/ Contains(s, "SMALLINT")
    \/ Contains(s, "INTEGER")
    \/ \E i \in 1..Len(s) :
          /\ MatchAt(s, i, "INT")
          /\ WordBoundary(s, i)
          /\ WordBoundary(s, i + 3)
    \/ Contains(s, "BOOL")

\* DEC\s*\( matched at position i: DEC, any run of white space, then (
RECURSIVE SpacesThenParen(_, _)
SpacesThenParen(s, j) ==
    IF j > Len(s) THEN FALSE
    ELSE IF CharAt(s, j) = "(" THEN TRUE
    ELSE IF CharAt(s, j) \in SpaceChars THEN SpacesThenParen(s, j + 1)
    ELSE FALSE

\* static regex re_numeric(R"(NUMERIC|DECIMAL|DEC\s*\()")
re_numeric(s) ==
    \/ Contains(s, "NUMERIC")
    \/ Contains(s, "DECIMAL")
    \/ \E i \in 1..Len(s) : MatchAt(s, i, "DEC") /\ SpacesThenParen(s, i + 3)

\* static regex re_real("DOUBLE|FLOAT|REAL")
re_real(s) ==
    Contains(s, "DOUBLE") \/ Contains(s, "FLOAT") \/ Contains(s, "REAL")

\* static regex re_blob("BINARY|BLOB|VARBINARY")
re_blob(s) ==
    Contains(s, "BINARY") \/ Contains(s, "BLOB") \/ Contains(s, "VARBINARY")

\* A plausible slip: the numeric pattern tried before the integer one.
compute_coltype_numeric_first(s) ==
    IF re_numeric(s) THEN "NUMERIC"
    ELSE IF re_int(s) THEN "INTEGER"
    ELSE IF re_real(s) THEN "REAL"
    ELSE IF re_blob(s) THEN "BLOB"
    ELSE "TEXT"

\* siard_type_to_sqlite3, the chain of regex_search calls after a cache miss
compute_coltype(s) ==
    IF re_int(s) THEN "INTEGER"
    ELSE IF re_numeric(s) THEN "NUMERIC"
    ELSE IF re_real(s) THEN "REAL"
    ELSE IF re_blob(s) THEN "BLOB"
    ELSE "TEXT"

\* coltype_to_str
coltype_to_str(t) ==
    CASE t = "BLOB" -> " BLOB"
      [] t = "NUMERIC" -> " NUMERIC"
      [] t = "INTEGER" -> " INTEGER"
      [] t = "REAL" -> " REAL"
      [] OTHER -> " TEXT"

\* The pieces the type strings of the type mapper's specification are made of.
TypeFragments ==
    {"", "INT", "BIG", "EGER", "DEC", "(", " (", "NUMERIC", "REAL", "BLOB", "x"}

\* Whole type strings checked besides the two-fragment ones.
TypeExtras ==
    {"SMALLINT", "BOOLEAN", "DECIMAL(10,2)", "DOUBLE PRECISION", "FLOAT(3)",
     "VARCHAR(8)", "VARBINARY(4)", "BINARY(4)", "integer", "INTERVAL", "POINT",
     "INT_2", "A INT B", "NUMERIC INT", "DEC  (3)", "DEC\t(3)", "DECX(3)"}

TypeStrings == {a \o b : a \in TypeFragments, b \in TypeFragments} \cup TypeExtras

\* How many entries the cache may hold in the model.
MaxCached == 1

\* siard_type_to_sqlite3(s) with the cache typecache: the value returned and
\* the cache it leaves
siard_type_to_sqlite3(cache, s) ==
    IF s \in DOMAIN cache
    THEN [ret |-> cache[s], typecache |-> cache]
    ELSE With(compute_coltype(s), LAMBDA t :
              [ret |-> t, typecache |-> Put(cache, s, t)])

-----------------------------------------------------------------------------
(* IDA_xml_utils: the searches in a table XML document *)

(* An element of a table XML document is the record [tag, file, text, kids]: *)
(* its name, its attribute file ("" when absent), GetText() ("" when NULL)   *)
(* and the sequence of its child elements.                                   *)

\* The NULL XMLElement pointer
NullElement == [tag |-> "", file |-> "", text |-> "", kids |-> <<>>]

\* depth_first_search_element_by_tag over the children elems
RECURSIVE depth_first_search_element_by_tag(_, _)
depth_first_search_element_by_tag(elems, tagname) ==
    IF elems = <<>> THEN NullElement
    ELSE IF Head(elems).tag = tagname THEN Head(elems)
    ELSE LET r == depth_first_search_element_by_tag(Head(elems).kids, tagname) IN
         IF r # NullElement THEN r
         ELSE depth_first_search_element_by_tag(Tail(elems), tagname)

\* breadth_first_search_element_by_tag: v is the queue of elements to visit
RECURSIVE breadth_first_search_element_by_tag(_, _)
breadth_first_search_element_by_tag(v, tagname) ==
    IF v = <<>> THEN NullElement
    ELSE IF Head(v).tag = tagname THEN Head(v)
    ELSE breadth_first_search_element_by_tag(Tail(v) \o Head(v).kids, tagname)

-----------------------------------------------------------------------------
(* IDA_SIARDcontent: the value of one cell *)

(* The functions below thread the record st = [files, tmpdir, typecache]:   *)
(* the file system, the member tmpdir of the content object and the cache   *)
(* of the type mapper.  They return [s, st]: the text appended and the      *)
(* state left.                                                               *)

\* n spaces
RECURSIVE Spaces(_)
Spaces(n) == IF n = 0 THEN "" ELSE " " \o Spaces(n - 1)

\* append_simple_data_type_content, lines 1857-1904: a cell with a file
append_lob_content(el, simpletype, textifyblob, treepath, lobinfo, siardURI, st) ==
    LET lobfolder == get_real_lobfoler(lobinfo, treepath)
        lob_file  == IF lobfolder = ""
                     THEN combine_lobfolders(siardURI, el.file)
                     ELSE combine_lobfolders(lobfolder, el.file)
        cast      == simpletype = "TEXT" \/ textifyblob
    IN  With(unzipURI(lob_file, st.tmpdir, st.files), LAMBDA u :
        [s  |-> (IF cast THEN "CAST(" ELSE "")
                   \o file_to_blob_literal_append(u.ret, u.files)
                   \o (IF cast THEN " AS TEXT)" ELSE ""),
         st |-> [st EXCEPT !.files = delete_temp_file(u.tmpdir, u.ret, u.files),
                           !.tmpdir = u.tmpdir]])

\* A slip of the formatter: the test for the void element is left out, and
\* the void element is read as an element without file and without text.
append_simple_data_type_content_unchecked(el, simpletype, textifyblob, treepath, lobinfo, siardURI, st) ==
    IF el.file # ""
    THEN append_lob_content(el, simpletype, textifyblob, treepath, lobinfo, siardURI, st)
    ELSE IF simpletype \in {"INTEGER", "REAL", "NUMERIC"}
         THEN [s |-> el.text, st |-> st]
    ELSE [s |-> enclose_sqlite_single_quote(el.text), st |-> st]

\* append_simple_data_type_content (the version taking the sqlite type)
append_simple_data_type_content(el, simpletype, textifyblob, treepath, lobinfo, siardURI, st) ==
    IF el = NullElement THEN [s |-> "''", st |-> st]
    ELSE IF el.file # ""
         THEN append_lob_content(el, simpletype, textifyblob, treepath, lobinfo, siardURI, st)
    ELSE IF simpletype \in {"INTEGER", "REAL", "NUMERIC"}
         THEN [s |-> el.text, st |-> st]
    ELSE IF ~has_siard_special_chars(el.text)
         THEN [s |-> enclose_sqlite_single_quote(el.text), st |-> st]
    ELSE [s  |-> "CAST(" \o char_array_to_blob_literal_append(siard_decode(el.text))
                     \o " AS TEXT)",
          st |-> st]

\* append_complex_data_type_content; the elements a<i> of an array from
\* index i are visited by append_array_items, the attributes of a udt from
\* number att_no by append_udt_attributes.
RECURSIVE append_complex_data_type_content(_, _, _, _, _, _, _, _)
RECURSIVE append_array_items(_, _, _, _, _, _, _, _, _)
RECURSIVE append_udt_attributes(_, _, _, _, _, _, _, _)
append_complex_data_type_content(el, siard_typeSchema, siard_typeName, depth, treepath, lobinfo, siardURI, st) ==
    LET tnode == get_typenode(DataType_Table, siard_typeSchema, siard_typeName)
        tail  == IF depth > 0 THEN "\n" ELSE ""
    IN
    IF el = NullElement THEN [s |-> "''", st |-> st]
    ELSE IF tnode.name = ""
         THEN With(siard_type_to_sqlite3(st.typecache, siard_typeName), LAMBDA m :
              append_simple_data_type_content(el, m.ret, TRUE, treepath, lobinfo,
                  siardURI, [st EXCEPT !.typecache = m.typecache]))
    ELSE IF tnode.category = "array"
         THEN With(append_array_items(el, tnode.attribute_list[1].typeSchema,
                       getTypeOrTypeName(tnode.attribute_list[1]),
                       1, tnode.attribute_list[1].cardinality, depth, treepath,
                       <<lobinfo, siardURI>>, st),
                   LAMBDA r : [s |-> "json_array(\n" \o r.s \o ")" \o tail, st |-> r.st])
    ELSE IF tnode.category = "distinct"
         THEN append_complex_data_type_content(el, "", tnode.attribute_list[1].base,
                  depth + 1, treepath, lobinfo, siardURI, st)
    ELSE IF tnode.category = "udt"
         THEN With(append_udt_attributes(el, tnode.attribute_list, 1, depth,
                       treepath, lobinfo, siardURI, st),
                   LAMBDA r : [s |-> "json_object(\n" \o r.s \o ")" \o tail, st |-> r.st])
    ELSE [s |-> "", st |-> st]

append_array_items(el, arr_schema, arr_type, i, arr_card, depth, treepath, lc, st) ==
    IF i > arr_card THEN [s |-> "", st |-> st]
    ELSE LET atag == "a" \o to_string(i)
             a    == breadth_first_search_element_by_tag(el.kids, atag)
             sep  == IF i < arr_card THEN ",\n" ELSE ""
         IN  With(IF a # NullElement
                  THEN append_complex_data_type_content(a, arr_schema, arr_type,
                           depth + 1, treepath \o "/" \o atag, lc[1], lc[2], st)
                  ELSE [s |-> "''", st |-> st],
             LAMBDA one :
             With(append_array_items(el, arr_schema, arr_type, i + 1, arr_card,
                                     depth, treepath, lc, one.st),
             LAMBDA rest :
             [s |-> Spaces(1 + depth) \o one.s \o sep \o rest.s, st |-> rest.st]))

append_udt_attributes(el, attribute_list, att_no, depth, treepath, lobinfo, siardURI, st) ==
    IF att_no > Len(attribute_list) THEN [s |-> "", st |-> st]
    ELSE LET att  == attribute_list[att_no]
             utag == "u" \o to_string(att_no)
             u    == breadth_first_search_element_by_tag(el.kids, utag)
             sep  == IF att_no < Len(attribute_list) THEN ",\n" ELSE ""
         IN  With(IF u # NullElement
                  THEN append_complex_data_type_content(u, att.typeSchema,
                           getTypeOrTypeName(att),
                           depth + 1, treepath \o "/" \o att.name,
                           lobinfo, siardURI, st)
                  ELSE [s |-> "''", st |-> st],
             LAMBDA one :
             With(append_udt_attributes(el, attribute_list, att_no + 1, depth,
                                        treepath, lobinfo, siardURI, one.st),
             LAMBDA rest :
             [s  |-> Spaces(1 + depth) \o "'" \o att.name \o "', " \o one.s \o sep \o rest.s,
              st |-> rest.st]))

\* The nested calls of append_complex_data_type_content the stack of the
\* process has room for (scaled down: a stack of 8 MiB holds some ten
\* thousand of them)
StackLevels == 80

(* One call of append_complex_data_type_content step by step.  The call is  *)
(* the record [f, arg, s, stack, depth, returned, signaled]: s is the text  *)
(* appended so far, stack the calls that are open, the innermost last, each *)
(* a record [el, tnode, depth, i] with i the item or attribute that comes   *)
(* next, depth the greatest depth argument so far.                          *)

\* The items a call with the type node tnode visits: the elements of an
\* array, the attributes of a udt, the base of a distinct type
formatter_items(tnode) ==
    CASE tnode.category = "array" -> tnode.attribute_list[1].cardinality
      [] tnode.category = "udt" -> Len(tnode.attribute_list)
      [] tnode.category = "distinct" -> 1
      [] OTHER -> 0

\* lines 2002, 2049: the separator written after item i of the innermost
\* open call
formatter_separator(stack) ==
    IF stack = <<>> THEN ""
    ELSE LET top == stack[Len(stack)] IN
         IF top.tnode.category \in {"array", "udt"} /\ top.i <= formatter_items(top.tnode)
         THEN ",\n" ELSE ""

\* lines 1950-1983, 2024, 2057-2061: the call (el, siard_typeSchema,
\* siard_typeName, depth) is made while u.stack is open: the stack is used
\* up, or the call writes '' or a simple value and returns, or it stays
\* open for its items
formatter_enter(u, el, siard_typeSchema, siard_typeName, depth, cache) ==
    LET tnode == get_typenode(DataType_Table, siard_typeSchema, siard_typeName)
        v == [u EXCEPT !.depth = IF depth > @ THEN depth ELSE @]
    IN
    IF depth >= StackLevels
    THEN [u |-> [v EXCEPT !.signaled = TRUE], typecache |-> cache]
    ELSE IF el = NullElement
         THEN [u |-> [v EXCEPT !.s = @ \o "''" \o formatter_separator(u.stack),
                               !.returned = (u.stack = <<>>)],
               typecache |-> cache]
    ELSE IF tnode.name = ""
         THEN With(siard_type_to_sqlite3(cache, siard_typeName), LAMBDA m :
              With(append_simple_data_type_content(el, m.ret, TRUE, "", <<>>, "",
                       [files |-> <<>>, tmpdir |-> "", typecache |-> m.typecache]),
              LAMBDA r :
              [u |-> [v EXCEPT !.s = @ \o r.s \o formatter_separator(u.stack),
                               !.returned = (u.stack = <<>>)],
               typecache |-> r.st.typecache]))
    ELSE [u |-> [v EXCEPT
                   !.s = @ \o (CASE tnode.category = "array" -> "json_array(\n"
                                  [] tnode.category = "udt" -> "json_object(\n"
                                  [] OTHER -> ""),
                   !.stack = Append(@, [el |-> el, tnode |-> tnode, depth |-> depth, i |-> 1])],
          typecache |-> cache]

\* lines 1985-2008, 2014-2024, 2027-2053: the innermost open call goes on:
\* it visits its next item or attribute, or it has none left, writes its
\* end and returns
formatter_step(u, cache) ==
    LET top == u.stack[Len(u.stack)]
        below == SubSeq(u.stack, 1, Len(u.stack) - 1)
        tags == top.tnode.category = "array" \/ top.tnode.category = "udt"
        att == top.tnode.attribute_list[IF top.tnode.category = "udt" THEN top.i ELSE 1]
        tag == (IF top.tnode.category = "array" THEN "a" ELSE "u") \o to_string(top.i)
        next == [u EXCEPT !.stack[Len(u.stack)].i = top.i + 1]
    IN
    IF top.i > formatter_items(top.tnode)
    THEN [u |-> [u EXCEPT
                   !.s = @ \o (IF tags
                                THEN ")" \o (IF top.depth > 0 THEN "\n" ELSE "")
                                ELSE "")
                          \o formatter_separator(below),
                   !.stack = below,
                   !.returned = (below = <<>>)],
          typecache |-> cache]
    ELSE IF top.tnode.category = "distinct"
         THEN formatter_enter(next, top.el, "", att.base, top.depth + 1, cache)
    ELSE With(breadth_first_search_element_by_tag(top.el.kids, tag), LAMBDA a :
         With([next EXCEPT !.s = @ \o Spaces(1 + top.depth)
                              \o (IF top.tnode.category = "udt"
                                   THEN "'" \o att.name \o "', " ELSE "")],
         LAMBDA w :
         IF a = NullElement
         THEN [u |-> [w EXCEPT !.s = @ \o "''" \o formatter_separator(w.stack)],
               typecache |-> cache]
         ELSE formatter_enter(w, a, att.typeSchema, getTypeOrTypeName(att),
                              top.depth + 1, cache)))

-----------------------------------------------------------------------------
(* IDA_SIARDcontent::tree_to_sql: one row *)

(* The content object C of a table is the record                            *)
(*   [tablename, siardURI, tmpdir, unzipmode, ncols, siard_colname_v,       *)
(*    siard_coltype_v, siard_lobfolder_info_v, table_file, rows,            *)
(*    col_simple_type].                                                     *)

\* lines 2092-2096: col_simple_type of the columns from colid on, with the
\* cache it leaves
RECURSIVE precompute_col_simple_type(_, _, _)
precompute_col_simple_type(coltype_v, colid, cache) ==
    IF colid > Len(coltype_v) THEN [v |-> <<>>, typecache |-> cache]
    ELSE With(siard_type_to_sqlite3(cache, getTypeOrTypeName(coltype_v[colid])),
         LAMBDA m :
         With(precompute_col_simple_type(coltype_v, colid + 1, m.typecache),
         LAMBDA r : [v |-> <<m.ret>> \o r.v, typecache |-> r.typecache]))

\* lines 2113-2170: the values of the columns of a row from colid on
RECURSIVE row_values(_, _, _, _)
row_values(c, row, colid, st) ==
    IF colid > c.ncols THEN [v |-> <<>>, st |-> st]
    ELSE LET col == depth_first_search_element_by_tag(row.kids, "c" \o to_string(colid))
             treepath0 == "/" \o c.siard_colname_v[colid]
         IN  With(IF c.siard_coltype_v[colid].typeSchema = ""
                  THEN append_simple_data_type_content(col, c.col_simple_type[colid],
                           FALSE, treepath0, c.siard_lobfolder_info_v[colid],
                           c.siardURI, st)
                  ELSE append_complex_data_type_content(col,
                           c.siard_coltype_v[colid].typeSchema,
                           getTypeOrTypeName(c.siard_coltype_v[colid]),
                           0, treepath0, c.siard_lobfolder_info_v[colid],
                           c.siardURI, st),
             LAMBDA one :
             With(row_values(c, row, colid + 1, one.st),
             LAMBDA rest : [v |-> <<one.s>> \o rest.v, st |-> rest.st]))

\* The strings of v joined by sep
RECURSIVE JoinStrings(_, _)
JoinStrings(v, sep) ==
    IF v = <<>> THEN ""
    ELSE IF Len(v) = 1 THEN v[1]
    ELSE v[1] \o sep \o JoinStrings(Tail(v), sep)

(* A line of the SQL output is the record [kind, table, parts, text, at]:   *)
(* kind is "-- schema", "CREATE TABLE", "INSERT INTO" or "CREATE UNIQUE     *)
(* INDEX"; table the table name; parts the column declarations, the values  *)
(* or the index name; text the characters written; at = <<is, it, k>> the   *)
(* schema, table and row or key the line was written for.                   *)

\* lines 2099-2173: the INSERT statement of a row with the values v
insert_statement(tablename, v, at) ==
    [kind |-> "INSERT INTO", table |-> tablename, parts |-> v,
     text |-> "INSERT INTO '" \o tablename \o "' VALUES ("
                 \o JoinStrings(v, ",\n") \o ");\n",
     at |-> at]

-----------------------------------------------------------------------------
(* IDA_SIARDmetadata::tree_to_sql: the statements of one table *)

(* The metadata tree is the record [lobFolder, schemas]; a schema is        *)
(* [name, folder, types, tables]; a table is [name, folder, columns,        *)
(* primaryKey, candidateKeys]; a candidate key is [name, columns].          *)

\* lines 2648-2677: the type attribute kept for a column, the string given
\* to the type mapper, and the Data Type Table left
column_type(dtt, schema_name, col) ==
    LET tname == type_attribute(col)
        cat   == get_extended_category(tname)
        arr   == add_array_data_type(dtt, schema_name, col)
    IN  IF cat = "simple"
        THEN [tname |-> [tname EXCEPT !.typeSchema = ""],
              siard_column_type |-> col.type, complex_type |-> FALSE, dtt |-> dtt]
        ELSE IF cat = "array"
        THEN [tname |-> [tname EXCEPT !.type = "", !.typeSchema = schema_name,
                                      !.typeName = arr.name],
              siard_column_type |->
                  "ARRAY(" \o to_string(tname.cardinality) \o ") of " \o col.type
                     \o " [complex type, encoded as json text]",
              complex_type |-> TRUE, dtt |-> arr.dtt]
        ELSE [tname |-> tname,
              siard_column_type |->
                  (IF col.typeName # "" THEN col.typeName ELSE "(udt)")
                     \o " [complex type, encoded as json text]",
              complex_type |-> TRUE, dtt |-> dtt]

\* lines 2640-2701: the columns from ic on.  Returns the vectors
\* siard_colname_v, siard_coltype_v, siard_lobfolder_info_v, the declared
\* affinities, and the Data Type Table and the cache left.
RECURSIVE table_columns(_, _, _, _, _, _, _)
table_columns(columns, ic, schema_name, siardURI, siard_lobfolder, dtt, cache) ==
    IF ic > Len(columns)
    THEN [colname_v |-> <<>>, coltype_v |-> <<>>, lobfolder_info_v |-> <<>>,
          decl |-> <<>>, dtt |-> dtt, typecache |-> cache]
    ELSE With(column_type(dtt, schema_name, columns[ic]), LAMBDA ct :
         With(siard_type_to_sqlite3(cache, ct.siard_column_type), LAMBDA m :
         With(table_columns(columns, ic + 1, schema_name, siardURI,
                            siard_lobfolder, ct.dtt, m.typecache), LAMBDA r :
         [colname_v |-> <<columns[ic].name>> \o r.colname_v,
          coltype_v |-> <<ct.tname>> \o r.coltype_v,
          lobfolder_info_v |->
              <<lobfolder_init(siardURI, columns[ic], siard_lobfolder)>>
                 \o r.lobfolder_info_v,
          decl |-> <<[name |-> columns[ic].name,
                      sqlite3_type |-> coltype_to_str(m.ret),
                      complex_type |-> ct.complex_type]>> \o r.decl,
          dtt |-> r.dtt, typecache |-> r.typecache])))

\* 'name' sqlite3_type of each column
RECURSIVE column_declarations(_)
column_declarations(decl) ==
    IF decl = <<>> THEN <<>>
    ELSE <<"'" \o Head(decl).name \o "' " \o Head(decl).sqlite3_type>>
            \o column_declarations(Tail(decl))

\* "\n   " name "," of each column of a key
RECURSIVE key_columns(_, _)
key_columns(cols, lead) ==
    IF cols = <<>> THEN ""
    ELSE lead \o Head(cols) \o "," \o key_columns(Tail(cols), lead)

\* s with its last character replaced by ")"
close_paren(s) == SubSeq(s, 1, Len(s) - 1) \o ")"

\* lines 2625, 2690-2727: the CREATE TABLE statement
create_table_statement(table_name, decl, primaryKey, at) ==
    [kind |-> "CREATE TABLE", table |-> table_name, parts |-> decl,
     text |-> "CREATE TABLE '" \o table_name \o "' (\n"
                 \o JoinStrings(column_declarations(decl), ",\n")
                 \o (IF primaryKey # <<>>
                     THEN close_paren(",\n   PRIMARY KEY (" \o key_columns(primaryKey, "\n   "))
                             \o "\n"
                     ELSE "")
                 \o ");\n",
     at |-> at]

\* A slip of the counter: it starts again at 0 with every table.
RECURSIVE unique_index_statements_per_table(_, _, _, _, _)
unique_index_statements_per_table(table_name, candidate_keys, ick, k, at) ==
    IF ick > Len(candidate_keys) THEN <<>>
    ELSE LET ck == candidate_keys[ick]
             index_name == "unique_idx" \o to_string(ick - 1) \o "_" \o ck.name
         IN  <<[kind |-> "CREATE UNIQUE INDEX", table |-> table_name,
                parts |-> <<index_name>>,
                text |-> close_paren("CREATE UNIQUE INDEX " \o index_name \o " ON "
                                        \o table_name \o " ("
                                        \o key_columns(ck.columns, "\n  "))
                            \o ";\n",
                at |-> <<at[1], at[2], ick>>]>>
                \o unique_index_statements_per_table(table_name, candidate_keys, ick + 1, k, at)

\* lines 2779-2794: the CREATE UNIQUE INDEX statements of the candidate keys
\* from ick on, the counter being k
RECURSIVE unique_index_statements(_, _, _, _, _)
unique_index_statements(table_name, candidate_keys, ick, k, at) ==
    IF ick > Len(candidate_keys) THEN <<>>
    ELSE LET ck == candidate_keys[ick]
             index_name == "unique_idx" \o to_string(k) \o "_" \o ck.name
         IN  <<[kind |-> "CREATE UNIQUE INDEX", table |-> table_name,
                parts |-> <<index_name>>,
                text |-> close_paren("CREATE UNIQUE INDEX " \o index_name \o " ON "
                                        \o table_name \o " ("
                                        \o key_columns(ck.columns, "\n  "))
                            \o ";\n",
                at |-> <<at[1], at[2], ick>>]>>
                \o unique_index_statements(table_name, candidate_keys, ick + 1, k + 1, at)

-----------------------------------------------------------------------------
(* IDA_parsing_utils and std::regex: the schema filter *)

(* The filters of the model are ECMAScript patterns of the form              *)
(* [^] atoms [$], an atom being a literal character or a dot, and patterns  *)
(* std::regex rejects.                                                       *)

\* The pattern starts with the assertion ^
regex_bol(pat) == is_prefix("^", pat)

\* The pattern ends with the assertion $
regex_eol(pat) ==
    /\ Len(pat) > (IF regex_bol(pat) THEN 1 ELSE 0)
    /\ SubSeq(pat, Len(pat), Len(pat)) = "$"

\* The atoms of the pattern: pat without a leading ^ and a trailing $
regex_body(pat) ==
    SubSeq(pat, IF regex_bol(pat) THEN 2 ELSE 1,
                IF regex_eol(pat) THEN Len(pat) - 1 ELSE Len(pat))

\* How many times the character c stands in s
RECURSIVE CountChar(_, _)
CountChar(s, c) ==
    IF s = "" THEN 0
    ELSE (IF SubSeq(s, 1, 1) = c THEN 1 ELSE 0) + CountChar(SubSeq(s, 2, Len(s)), c)

\* is_valid_regex: regex re(s) does not throw.  std::regex rejects a pattern
\* with a parenthesis or a bracket left open and one that starts with a
\* quantifier.
is_valid_regex(pat) ==
    /\ CountChar(pat, "(") = CountChar(pat, ")")
    /\ CountChar(pat, "[") = CountChar(pat, "]")
    /\ CharAt(regex_body(pat), 1) \notin {"*", "+", "?"}

\* The atoms body match the characters of s from position i on, icase
regex_match_at(s, i, body) ==
    /\ i + Len(body) - 1 <= Len(s)
    /\ \A k \in 1..Len(body) :
          \/ SubSeq(body, k, k) = "." /\ SubSeq(s, i + k - 1, i + k - 1) # "\n"
          \/ LowerChar(SubSeq(body, k, k)) = LowerChar(SubSeq(s, i + k - 1, i + k - 1))

\* A slip of the filter: regex_match without icase, the whole name compared.
regex_match_case(s, pat) == s = regex_body(pat)

\* regex_search(s, regex(pat, icase))
regex_search_icase(s, pat) ==
    \E i \in 1..(Len(s) + 1) :
       /\ regex_match_at(s, i, regex_body(pat))
       /\ (regex_bol(pat) => i = 1)
       /\ (regex_eol(pat) => i + Len(regex_body(pat)) - 1 = Len(s))

-----------------------------------------------------------------------------
(* The run of the command: main, IDA_siard2sql, IDA_SIARDmetadata           *)

EXIT_SUCCESS == 0
EXIT_FAILURE == 1

\* The content object before a table is reached
NoContent ==
    [tablename |-> "", siardURI |-> "", tmpdir |-> "", unzipmode |-> "",
     ncols |-> 0, siard_colname_v |-> <<>>, siard_coltype_v |-> <<>>,
     siard_lobfolder_info_v |-> <<>>, table_file |-> "", rows |-> <<>>,
     col_simple_type |-> <<>>]

\* The metadata object before IDA_siard2sql constructs it
NoMetadata ==
    [siardURI |-> "", tmpdir |-> "", unzipmode |-> "SIARD_FULL_UNZIP",
     loaded |-> FALSE, root |-> [lobFolder |-> "", schemas |-> <<>>]]

\* A slip of the writer: the lines are put in front of the output.
write_in_front(out, lines) == lines \o out

\* sqlout << lines: the output after the lines are written
write(out, lines) == out \o lines

\* A slip of the skip of replicated tables: no table name is ever seen.
never_seen(seen, table_name) == FALSE

\* seen_tables.count(table_name)
seen_tables_count(seen, table_name) == table_name \in seen

\* No utility function was called
NoCall == [f |-> "none", arg |-> <<>>, ret |-> <<>>]

\* The variables of the run before main is entered, at position p.  ret is
\* 1 until IDA_siard2sql returns (it returns 0 or -1), exit_status is -1
\* until the process ends.
InitRun(p) ==
    /\ pc = p
    /\ calls = 1
    /\ M = NoMetadata
    /\ is = 0
    /\ it = 0
    /\ seen_tables = {}
    /\ rep_tables = {}
    /\ table_first_schema = <<>>
    /\ iuk = 0
    /\ DataType_Table = EmptyDataTypeTable
    /\ C = NoContent
    /\ ir = 0
    /\ sqlout = <<>>
    /\ ret = 1
    /\ exit_status = -1

\* ~IDA_SIARDmetadata: rrm(tmpdir, "_s2s_tmp"), the files left
rrm_files(tmpdir, fs) ==
    IF tmpdir = "" \/ ~Contains(tmpdir, "_s2s_tmp") THEN fs
    ELSE [q \in {x \in DOMAIN fs : x # tmpdir /\ ~is_prefix(tmpdir \o "/", x)} |-> fs[q]]

\* A slip of the destructor: the temporary directory is left where it is.
rrm_dirs_kept(tmpdir, ds) == ds

\* ~IDA_SIARDmetadata: rrm(tmpdir, "_s2s_tmp"), the directories left
rrm_dirs(tmpdir, ds) ==
    IF tmpdir = "" \/ ~Contains(tmpdir, "_s2s_tmp") THEN ds
    ELSE {x \in ds : x # tmpdir /\ ~is_prefix(tmpdir \o "/", x)}

\* main, lines 32-48: the check of the arguments
main ==
    /\ pc = "main"
    /\ IF argv.argc < 2
       THEN pc' = "exited" /\ exit_status' = EXIT_FAILURE
       ELSE pc' = "IDA_siard2sql" /\ UNCHANGED exit_status
    /\ UNCHANGED <<typeVars, util, calls, envVars, M, is, it, seen_tables, rep_tables,
                   table_first_schema, iuk, DataType_Table, C, ir, sqlout, ret>>

\* IDA_siard2sql, lines 2895-2911: the checks of the arguments and the
\* construction of M
IDA_siard2sql ==
    /\ pc = "IDA_siard2sql"
    /\ LET realsiard == get_realpath(argv.siardfile)
           tmpdir    == create_temp_dir(TmpDirOfRun)
       IN  IF realsiard = "" \/ ~is_valid_regex(argv.schema_filter)
           THEN /\ ret' = -1
                /\ pc' = "main_return"
                /\ UNCHANGED <<M, dirs>>
           ELSE /\ M' = [siardURI |-> realsiard,
                         tmpdir |-> tmpdir,
                         unzipmode |-> IF tmpdir = "" \/ is_directory(realsiard, cwd)
                                       THEN "SIARD_FULL_UNZIP"
                                       ELSE "SIARD_FILE_BY_FILE_UNZIP",
                         loaded |-> FALSE,
                         root |-> NoMetadata.root]
                /\ dirs' = dirs \cup ({tmpdir} \ {""})
                /\ pc' = "load"
                /\ UNCHANGED ret
    /\ UNCHANGED <<typeVars, util, calls, argv, cwd, dirstack, minizip, files, mkdtemp_ok, sink, is, it,
                   seen_tables, rep_tables, table_first_schema, iuk,
                   DataType_Table, C, ir, sqlout, exit_status>>

\* IDA_siard2sql, lines 2915-2925: M.load() and what follows it
load ==
    /\ pc = "load"
    /\ \E u \in {IF M.unzipmode = "SIARD_FILE_BY_FILE_UNZIP"
                 THEN unzipURI(M.siardURI \o "/header/metadata.xml", M.tmpdir, files)
                 ELSE [ret |-> M.siardURI \o "/header/metadata.xml",
                       files |-> files, tmpdir |-> M.tmpdir]} :
       \E p \in {realpath_nocheck(u.ret, cwd)} :
          IF u.ret # "" /\ p \in DOMAIN u.files /\ u.files[p].k = "xml"
          THEN /\ M' = [M EXCEPT !.loaded = TRUE, !.root = u.files[p].v]
               /\ files' = u.files
               /\ pc' = IF argv.argc < 3 THEN "epilogue" ELSE "tree_to_sql"
               /\ UNCHANGED <<ret, dirs>>
          ELSE /\ ret' = -1
               /\ files' = rrm_files(M.tmpdir, u.files)
               /\ dirs' = rrm_dirs(M.tmpdir, dirs)
               /\ pc' = "main_return"
               /\ UNCHANGED M
    /\ UNCHANGED <<typeVars, util, calls, argv, cwd, dirstack, minizip, mkdtemp_ok, sink, is, it, seen_tables,
                   rep_tables, table_first_schema, iuk, DataType_Table, C, ir,
                   sqlout, exit_status>>

\* tree_to_sql(string), lines 2836-2844, and tree_to_sql(ostream), lines
\* 2549-2580: the output file is opened, the first lines are written and the
\* types of all schemas are registered.  When the file cannot be opened the
\* function returns; when the first write fails the exception is caught.
tree_to_sql ==
    /\ pc = "tree_to_sql"
    /\ IF sink # "ok"
       THEN /\ pc' = "epilogue"
            /\ UNCHANGED <<DataType_Table, is, seen_tables, rep_tables,
                           table_first_schema, iuk>>
       ELSE /\ DataType_Table' = register_types(DataType_Table, M.root.schemas, 1)
            /\ is' = 1
            /\ seen_tables' = {}
            /\ rep_tables' = {}
            /\ table_first_schema' = <<>>
            /\ iuk' = 0
            /\ pc' = "schema"
    /\ UNCHANGED <<typeVars, util, calls, envVars, M, it, C, ir, sqlout, ret, exit_status>>

\* tree_to_sql, lines 2583-2602: the next schema
next_schema ==
    /\ pc = "schema"
    /\ IF is > Len(M.root.schemas)
       THEN /\ pc' = "epilogue"
            /\ UNCHANGED <<is, it, sqlout>>
       ELSE LET sch == M.root.schemas[is] IN
            IF /\ argv.schema_filter # ""
               /\ ~regex_search_icase(sch.name, argv.schema_filter)
            THEN /\ is' = is + 1
                 /\ UNCHANGED <<pc, it, sqlout>>
            ELSE /\ sqlout' = write(sqlout,
                        <<[kind |-> "-- schema", table |-> "", parts |-> <<sch.name>>,
                           text |-> "-- schema='" \o sch.name \o "'\n",
                           at |-> <<is, 0, 0>>]>>)
                 /\ it' = 1
                 /\ pc' = "table"
                 /\ UNCHANGED is
    /\ UNCHANGED <<typeVars, util, calls, envVars, M, seen_tables, rep_tables,
                   table_first_schema, iuk, DataType_Table, C, ir, ret, exit_status>>

\* tree_to_sql, lines 2604-2727: the next table of the schema, up to the
\* writing of its CREATE TABLE statement
next_table ==
    /\ pc = "table"
    /\ LET sch == M.root.schemas[is] IN
       IF it > Len(sch.tables)
       THEN /\ is' = is + 1
            /\ pc' = "schema"
            /\ UNCHANGED <<it, seen_tables, rep_tables, table_first_schema,
                           DataType_Table, C, sqlout, typecache>>
       ELSE LET tab == sch.tables[it] IN
            IF seen_tables_count(seen_tables, tab.name)
            THEN /\ rep_tables' = rep_tables \cup {<<sch.name, tab.name>>}
                 /\ it' = it + 1
                 /\ UNCHANGED <<pc, is, seen_tables, table_first_schema,
                                DataType_Table, C, sqlout, typecache>>
            ELSE \E r \in {table_columns(tab.columns, 1, sch.name, M.siardURI,
                                         M.root.lobFolder, DataType_Table, typecache)} :
                     /\ seen_tables' = seen_tables \cup {tab.name}
                     /\ table_first_schema' =
                           IF Lookup(table_first_schema, tab.name, "") = ""
                           THEN Put(table_first_schema, tab.name, sch.name)
                           ELSE table_first_schema
                     /\ DataType_Table' = r.dtt
                     /\ typecache' = r.typecache
                     /\ sqlout' = write(sqlout,
                           <<create_table_statement(tab.name, r.decl, tab.primaryKey,
                                                    <<is, it, 0>>)>>)
                     /\ C' = [tablename |-> tab.name, siardURI |-> M.siardURI,
                              tmpdir |-> M.tmpdir, unzipmode |-> M.unzipmode,
                              ncols |-> Len(tab.columns),
                              siard_colname_v |-> r.colname_v,
                              siard_coltype_v |-> r.coltype_v,
                              siard_lobfolder_info_v |-> r.lobfolder_info_v,
                              table_file |-> "", rows |-> <<>>,
                              col_simple_type |-> <<>>]
                     /\ pc' = "content"
                     /\ UNCHANGED <<is, it, rep_tables>>
    /\ UNCHANGED <<tm_arg, tm_ret, tm_hit, util, calls, envVars, M, iuk, ir, ret, exit_status>>

\* tree_to_sql, lines 2734-2760, and IDA_SIARDcontent::tree_to_sql, lines
\* 2073-2099: the table file is located, opened and loaded
load_content ==
    /\ pc = "content"
    /\ LET sch == M.root.schemas[is]
           tab == sch.tables[it]
           table_path == M.siardURI \o "/content/" \o sch.folder \o "/" \o tab.folder
           table_file0 == table_path \o "/" \o get_basename(tab.folder) \o ".xml"
       IN  \E u \in {IF M.unzipmode = "SIARD_FILE_BY_FILE_UNZIP"
                     THEN unzipURI(table_file0, M.tmpdir, files)
                     ELSE [ret |-> table_file0, files |-> files, tmpdir |-> M.tmpdir]} :
           \E p \in {realpath_nocheck(u.ret, cwd)} :
              /\ files' = u.files
              /\ IF u.ret # "" /\ p \in DOMAIN u.files /\ u.files[p].k = "xml"
                 THEN \E pre \in {precompute_col_simple_type(C.siard_coltype_v, 1,
                                                             typecache)} :
                         /\ C' = [C EXCEPT !.table_file = u.ret,
                                           !.rows = SelectSeq(u.files[p].v.kids,
                                                        LAMBDA e : e.tag = "row"),
                                           !.col_simple_type = pre.v]
                         /\ typecache' = pre.typecache
                         /\ ir' = 1
                         /\ pc' = "rows"
                 ELSE /\ C' = [C EXCEPT !.table_file = u.ret]
                      /\ pc' = "end_table"
                      /\ UNCHANGED <<typecache, ir>>
    /\ UNCHANGED <<tm_arg, tm_ret, tm_hit, util, calls, argv, cwd, dirstack, minizip, dirs, mkdtemp_ok, sink,
                   M, is, it, seen_tables, rep_tables, table_first_schema, iuk,
                   DataType_Table, sqlout, ret, exit_status>>

\* IDA_SIARDcontent::tree_to_sql, lines 2101-2174: the INSERT statement of
\* the next row
insert_row ==
    /\ pc = "rows"
    /\ ir <= Len(C.rows)
    /\ \E r \in {row_values(C, C.rows[ir], 1,
                    [files |-> files, tmpdir |-> C.tmpdir, typecache |-> typecache])} :
           /\ sqlout' = write(sqlout,
                                <<insert_statement(C.tablename, r.v, <<is, it, ir>>)>>)
           /\ files' = r.st.files
           /\ typecache' = r.st.typecache
           /\ C' = [C EXCEPT !.tmpdir = r.st.tmpdir]
           /\ dirs' = dirs \cup ({r.st.tmpdir} \ {""})
    /\ ir' = ir + 1
    /\ UNCHANGED <<tm_arg, tm_ret, tm_hit, util, calls, argv, cwd, dirstack, minizip, mkdtemp_ok, sink, pc, M,
                   is, it, seen_tables, rep_tables, table_first_schema, iuk,
                   DataType_Table, ret, exit_status>>

\* tree_to_sql, lines 2769-2796: the table file is deleted when it is a
\* temporary one and the unique indexes of the table are written
end_table ==
    /\ \/ pc = "end_table"
       \/ pc = "rows" /\ ir > Len(C.rows)
    /\ LET tab == M.root.schemas[is].tables[it] IN
       /\ files' = delete_temp_file(M.tmpdir, C.table_file, files)
       /\ sqlout' = write(sqlout,
                            unique_index_statements(tab.name, tab.candidateKeys,
                                                    1, iuk, <<is, it, 0>>))
       /\ iuk' = iuk + Len(tab.candidateKeys)
    /\ it' = it + 1
    /\ pc' = "table"
    /\ UNCHANGED <<typeVars, util, calls, argv, cwd, dirstack, minizip, dirs, mkdtemp_ok, sink, M, is,
                   seen_tables, rep_tables, table_first_schema,
                   DataType_Table, C, ir, ret, exit_status>>

\* IDA_siard2sql, lines 2927-2950: the schemas are printed, 0 is returned and
\* M is destructed
epilogue ==
    /\ pc = "epilogue"
    /\ ret' = 0
    /\ files' = rrm_files(M.tmpdir, files)
    /\ dirs' = rrm_dirs(M.tmpdir, dirs)
    /\ pc' = "main_return"
    /\ UNCHANGED <<typeVars, util, calls, argv, cwd, dirstack, minizip, mkdtemp_ok, sink, M, is, it,
                   seen_tables, rep_tables, table_first_schema, iuk,
                   DataType_Table, C, ir, sqlout, exit_status>>

\* The most calls of IDA_siard2sql one process makes
MaxCalls == 2

\* A client of the library calls IDA_siard2sql(siardfilein, sqlfileout,
\* schema_filter) once more with the same arguments: the objects of the
\* function (M, and within tree_to_sql the sets of tables, the counter of
\* the indexes and the content object) are new ones, the output file is
\* opened and cut to no length as before; the global DataType_Table and the
\* static typecache are the ones the call before left.
IDA_siard2sql_again ==
    /\ pc = "main_return"
    /\ calls < MaxCalls
    /\ calls' = calls + 1
    /\ pc' = "IDA_siard2sql"
    /\ M' = NoMetadata
    /\ is' = 0
    /\ it' = 0
    /\ seen_tables' = {}
    /\ rep_tables' = {}
    /\ table_first_schema' = <<>>
    /\ iuk' = 0
    /\ C' = NoContent
    /\ ir' = 0
    /\ sqlout' = <<>>
    /\ ret' = 1
    /\ UNCHANGED <<typeVars, util, envVars, DataType_Table, exit_status>>

\* The status of a process that a signal ended (128 + SIGSEGV)
EXIT_SIGNALED == 139

\* main, lines 48-62: the value of IDA_siard2sql is dropped.  With a single
\* argument sqlfile is NULL and fopen(sqlfile, "r") is undefined: the call
\* fails or the process is ended.
main_return ==
    /\ pc = "main_return"
    /\ exit_status' \in IF argv.argc < 3 THEN {EXIT_SUCCESS, EXIT_SIGNALED}
                                         ELSE {EXIT_SUCCESS}
    /\ pc' = "exited"
    /\ UNCHANGED <<typeVars, util, calls, envVars, M, is, it, seen_tables, rep_tables,
                   table_first_schema, iuk, DataType_Table, C, ir, sqlout, ret>>

-----------------------------------------------------------------------------
(* The archives, file systems and command lines the runs start from *)

SiardFile == "/d/a.siard"
SiardDir == "/d/u"
Cwd == "/w"
SqlFile == "out.sql"

\* The directories that exist before the run
BaseDirs == {"/", "/d", "/tmp", Cwd}

\* A text element without attribute and children
TextElement(tag, text) == [tag |-> tag, file |-> "", text |-> text, kids |-> <<>>]

\* An element with children only
ParentElement(tag, kids) == [tag |-> tag, file |-> "", text |-> "", kids |-> kids]

\* An element with the attribute file
FileElement(tag, file) == [tag |-> tag, file |-> file, text |-> "", kids |-> <<>>]

\* A <column> of a simple type
SimpleColumn(name, type) ==
    [name |-> name, type |-> type, typeSchema |-> "", typeName |-> "",
     cardinality |-> 0, base |-> "", lobFolder |-> "", fields |-> <<>>]

\* A <column> that is an array of a simple type
ArrayColumn(name, type, cardinality) ==
    [SimpleColumn(name, type) EXCEPT !.cardinality = cardinality]

\* A <column> of a type of a schema
TypedColumn(name, typeSchema, typeName) ==
    [SimpleColumn(name, "") EXCEPT !.typeSchema = typeSchema, !.typeName = typeName]

SchemaFolder(i) == "schema" \o to_string(i)
TableFolder(j) == "table" \o to_string(j)

\* The member of the archive that holds the content of table j of schema i
TableMember(i, j) ==
    "content/" \o SchemaFolder(i) \o "/" \o TableFolder(j) \o "/" \o TableFolder(j) \o ".xml"

MetadataMember == "header/metadata.xml"

\* The sequence f(1), ..., f(n)
SeqOf(n, f(_)) == [k \in 1..n |-> f(k)]

\* The union of the maps of a sequence of one-key maps, later keys winning
RECURSIVE MergeMaps(_)
MergeMaps(ms) == IF ms = <<>> THEN <<>> ELSE Head(ms) @@ MergeMaps(Tail(ms))

\* The concatenation of the sequences of a sequence
RECURSIVE Flatten(_)
Flatten(ss) == IF ss = <<>> THEN <<>> ELSE Head(ss) \o Flatten(Tail(ss))

\* The map m with every key k replaced by prefix/k
Rooted(prefix, m) ==
    [q \in {prefix \o "/" \o k : k \in DOMAIN m} |->
        m[CHOOSE k \in DOMAIN m : prefix \o "/" \o k = q]]

(* A scenario is the record [argv, mode, payload, shadow, outside,           *)
(* mkdtemp_ok, sink]: payload maps the members of the archive to their       *)
(* content, shadow the files of the working directory, by relative name, to  *)
(* theirs, outside the other files, by absolute name, to theirs.             *)

\* The command line siard2sql <siard> out.sql <filter>
CommandLine(siardfile, schema_filter) ==
    [argc |-> 4, siardfile |-> siardfile, sqlfile |-> SqlFile,
     schema_filter |-> schema_filter]

\* The files of a scenario
ScenarioFiles(sc) ==
    (IF sc.mode = "file" THEN (SiardFile :> ZipFile(sc.payload))
     ELSE IF sc.mode = "dir" THEN Rooted(SiardDir, sc.payload)
     ELSE IF sc.mode = "corrupt" THEN (SiardFile :> BytesFile(<<0>>))
     ELSE <<>>)
    @@ Rooted(Cwd, sc.shadow)
    @@ sc.outside

\* The directories of a scenario
ScenarioDirs(sc) == IF sc.mode = "dir" THEN BaseDirs \cup {SiardDir} ELSE BaseDirs

\* The path of the archive on the command line of a scenario
ScenarioSiard(mode) == IF mode = "dir" THEN SiardDir ELSE SiardFile

\* The state before main is entered, for the scenario sc
InitScenario(sc) ==
    /\ argv = sc.argv
    /\ cwd = Cwd
    /\ dirstack = <<>>
    /\ minizip = NoZip
    /\ files = ScenarioFiles(sc)
    /\ dirs = ScenarioDirs(sc)
    /\ mkdtemp_ok = sc.mkdtemp_ok
    /\ sink = sc.sink
    /\ typecache = <<>>
    /\ tm_arg = ""
    /\ tm_ret = "none"
    /\ tm_hit = FALSE
    /\ util = NoCall
    /\ InitRun("main")

(* An archive is described by the sequence of its schemas                    *)
(*   [name, types, tables]                                                   *)
(* a table being [name, columns, primaryKey, candidateKeys, file] with file  *)
(* the content of its table XML member, NoFile when the member is missing.   *)

NoFile == [k |-> "none", v |-> <<>>]

\* header/metadata.xml of the archive
ArchiveMetadata(schemas) ==
    [lobFolder |-> "",
     schemas |-> SeqOf(Len(schemas), LAMBDA i :
        [name |-> schemas[i].name, folder |-> SchemaFolder(i),
         types |-> schemas[i].types,
         tables |-> SeqOf(Len(schemas[i].tables), LAMBDA j :
            [name |-> schemas[i].tables[j].name, folder |-> TableFolder(j),
             columns |-> schemas[i].tables[j].columns,
             primaryKey |-> schemas[i].tables[j].primaryKey,
             candidateKeys |-> schemas[i].tables[j].candidateKeys])])]

\* The table XML members of schema i
SchemaMembers(schemas, i) ==
    MergeMaps(SeqOf(Len(schemas[i].tables), LAMBDA j :
        IF schemas[i].tables[j].file.k = "none" THEN <<>>
        ELSE (TableMember(i, j) :> schemas[i].tables[j].file)))

\* The members of the archive
ArchiveMembers(schemas) ==
    (MetadataMember :> XmlFile(ArchiveMetadata(schemas)))
    @@ MergeMaps(SeqOf(Len(schemas), LAMBDA i : SchemaMembers(schemas, i)))

\* A table XML document with the rows 1..n, row r holding <c1>first + r</c1>
PlainContent(n, first) ==
    XmlFile(ParentElement("table",
        SeqOf(n, LAMBDA r :
            ParentElement("row", <<TextElement("c1", to_string(first + r))>>))))

\* A table with the column id INTEGER and nk candidate keys on it
PlainTable(name, nk, file) ==
    [name |-> name, columns |-> <<SimpleColumn("id", "INTEGER")>>,
     primaryKey |-> <<>>,
     candidateKeys |-> SeqOf(nk, LAMBDA k :
                          [name |-> "k" \o to_string(k), columns |-> <<"id">>]),
     file |-> file]

\* The scenario of a well-formed run on the archive with these schemas
ArchiveScenario(schemas, mode, filter) ==
    [argv |-> CommandLine(ScenarioSiard(mode), filter), mode |-> mode,
     payload |-> ArchiveMembers(schemas), shadow |-> <<>>, outside |-> <<>>,
     mkdtemp_ok |-> TRUE, sink |-> "ok"]

\* The most schemas and the most tables an archive of the model holds
MaxSchemas == 2
MaxTables == 3

SchemaNames == {"", "s1", "S2"}
TableNames == {"T", "U"}

\* The schema filters of the command lines
Filters == {"", "^$", "S1", "^s"}

\* The indexes of the tables of schema i, owner[j] being the schema of table j
TablesOf(owner, i) ==
    SelectSeq(SeqOf(Len(owner), LAMBDA j : j), LAMBDA j : owner[j] = i)

\* The ways to give nt tables to ns schemas in order
Owners(ns, nt) ==
    { o \in [1..nt -> 1..ns] : \A j \in 1..(nt - 1) : o[j] <= o[j + 1] }

\* Archives that differ in the number and the names of their tables: up to
\* MaxSchemas schemas that hold up to MaxTables tables in all, table j having
\* one row with the value 10 * j + 1
OrderCases ==
    UNION { UNION { { <<tn, ow>> : tn \in [1..nt -> TableNames], ow \in Owners(ns, nt) } :
                    nt \in 0..MaxTables } :
            ns \in 1..MaxSchemas }

OrderScenario(d) ==
    ArchiveScenario(
        SeqOf(IF Len(d[2]) = 0 THEN 1 ELSE d[2][Len(d[2])], LAMBDA i :
            [name |-> "s" \o to_string(i), types |-> <<>>,
             tables |-> SeqOf(Len(TablesOf(d[2], i)), LAMBDA k :
                PlainTable(d[1][TablesOf(d[2], i)[k]], 1,
                           PlainContent(1, 10 * TablesOf(d[2], i)[k])))]),
        "file", "")

\* Archives that differ in the names of their schemas, each schema holding
\* one table, under every filter
FilterCases ==
    UNION { { <<sn, tn, f>> : sn \in [1..ns -> SchemaNames],
                              tn \in [1..ns -> TableNames], f \in Filters } :
            ns \in 1..MaxSchemas }

FilterScenario(d) ==
    ArchiveScenario(
        SeqOf(Len(d[1]), LAMBDA i :
            [name |-> d[1][i], types |-> <<>>,
             tables |-> <<PlainTable(d[2][i], 1, PlainContent(1, 10 * i))>>]),
        "file", d[3])

\* The most rows a table XML document of the model holds and the most
\* candidate keys a table has
MaxRows == 2
MaxKeys == 2

\* The file of the working directory that has the relative name of the table
\* XML member of table 1 of schema 1
ShadowTable == (TableMember(1, 1) :> PlainContent(1, 90))

\* What the archive holds for the table XML member of table T
ContentStatuses == {"ok", "bad", "missing", "shadowed"}

\* The archive with the schema s1 and its tables T and U.  T has nk candidate
\* keys; its table XML member holds nr rows (ok), is no XML document (bad) or
\* is missing (missing, shadowed).  U has one row and one key.
ContentCases ==
    { <<st, nr, nk, mode>> : st \in ContentStatuses, nr \in 0..MaxRows,
                             nk \in 0..MaxKeys, mode \in {"file", "dir"} }

ContentScenario(d) ==
    [ArchiveScenario(
        <<[name |-> "s1", types |-> <<>>,
           tables |-> <<PlainTable("T", d[3],
                           CASE d[1] = "ok" -> PlainContent(d[2], 10)
                             [] d[1] = "bad" -> BytesFile(<<0>>)
                             [] OTHER -> NoFile),
                        PlainTable("U", 1, PlainContent(1, 20))>>]>>,
        d[4], "")
     EXCEPT !.shadow = IF d[1] = "shadowed" THEN ShadowTable ELSE <<>>]

\* The most columns a table of the model has
MaxCols == 2

\* The types of the schema s1 of CellScenario: the distinct type D1 and the
\* udt U1 with the attributes n and s
CellSchemaTypes ==
    <<[category |-> "distinct", name |-> "D1", base |-> "INTEGER",
       has_attributes |-> FALSE, attributes |-> <<>>],
      [category |-> "udt", name |-> "U1", base |-> "",
       has_attributes |-> TRUE,
       attributes |-> <<SimpleColumn("n", "INTEGER"), SimpleColumn("s", "VARCHAR(8)")>>]>>

\* The file attribute of the cells that name a LOB file, and the bytes of
\* the member of the archive and of the file of the working directory that
\* have this name
LobName == "lob/r1.bin"
LobBytes == <<1, 171>>
ShadowBytes == <<222>>

\* text cells
CellTexts == {"7", "", "it's", "a\\u005cb", "x\\u00"}

\* where a file of the name LobName is: in the archive (present), nowhere
\* (absent), in the working directory (shadowed), in both (both)
LobStatuses == {"present", "absent", "shadowed", "both"}

\* The kinds of columns and cells: <<kind, type, cell, argument>>
CellKinds ==
    { <<"simple", ty, "none", "">> : ty \in {"INTEGER", "VARCHAR(8)", "BLOB", "REAL"} }
    \cup { <<"simple", ty, "text", t>> :
              ty \in {"INTEGER", "VARCHAR(8)", "BLOB", "REAL"}, t \in CellTexts }
    \cup { <<"simple", ty, "file", st>> :
              ty \in {"INTEGER", "VARCHAR(8)", "BLOB", "REAL"}, st \in LobStatuses }
    \cup { <<"array", ty, c, n>> : ty \in {"INTEGER", "VARCHAR(8)"},
                                   c \in {"none", "items"}, n \in {"0", "2", "3"} }
    \cup { <<"udt", "U1", c, n>> : c \in {"none", "items"}, n \in {"0", "1", "2"} }
    \cup { <<"distinct", "D1", "none", "">>, <<"distinct", "D1", "text", "5">>,
            <<"distinct", "D1", "file", "present">> }

\* A table with n columns and one row; the column at position p is of the
\* kind k, the others are INTEGER columns with the text of their position
CellCases ==
    { <<n, p, k, mode>> : n \in 1..MaxCols, p \in 1..MaxCols, k \in CellKinds,
                          mode \in {"file", "dir"} }

\* The <column> of the kind k
KindColumn(name, k) ==
    CASE k[1] = "simple" -> SimpleColumn(name, k[2])
      [] k[1] = "array" -> ArrayColumn(name, k[2], 3)
      [] OTHER -> TypedColumn(name, "s1", k[2])

\* The element <tag> of a row for a cell of the kind k; no element for the
\* cell none
KindCell(tag, k) ==
    CASE k[3] = "none" -> <<>>
      [] k[3] = "text" -> <<TextElement(tag, k[4])>>
      [] k[3] = "file" -> <<FileElement(tag, LobName)>>
      [] OTHER ->
         <<ParentElement(tag, SeqOf(stoul(k[4]), LAMBDA i :
              TextElement((IF k[1] = "array" THEN "a" ELSE "u") \o to_string(i),
                          to_string(i))))>>

CellScenario(d) ==
    LET n == d[1]
        p == IF d[2] > n THEN n ELSE d[2]
        k == d[3]
        cols == SeqOf(n, LAMBDA i :
                   IF i = p THEN KindColumn("x", k)
                   ELSE SimpleColumn("id" \o to_string(i), "INTEGER"))
        cells == SeqOf(n, LAMBDA i :
                    IF i = p THEN KindCell("c" \o to_string(i), k)
                    ELSE <<TextElement("c" \o to_string(i), to_string(i))>>)
        row == ParentElement("row", Flatten(cells))
        base == ArchiveScenario(
                   <<[name |-> "s1", types |-> CellSchemaTypes,
                      tables |-> <<[name |-> "T", columns |-> cols,
                                    primaryKey |-> <<>>, candidateKeys |-> <<>>,
                                    file |-> XmlFile(ParentElement("table", <<row>>))]>>]>>,
                   d[4], "")
    IN  [base EXCEPT
           !.payload = IF k[3] = "file" /\ k[4] \in {"present", "both"}
                       THEN @ @@ (LobName :> BytesFile(LobBytes)) ELSE @,
           !.shadow = IF k[3] = "file" /\ k[4] \in {"shadowed", "both"}
                      THEN (LobName :> BytesFile(ShadowBytes)) ELSE <<>>]

\* The runs that meet an error on their way, and their neighbours: the
\* command line has no argument (usage), one (schemas only) or two (no
\* filter); the archive does not exist (nosiard), is no zip file (corrupt),
\* has no header/metadata.xml (nometadata) or one that is no XML document
\* (badmetadata); the filter is no regular expression (paren, bracket);
\* mkdtemp fails (mkdtemp); the output file cannot be opened (unopenable) or
\* written (full)
FailureCases ==
    { <<e, mode>> : e \in {"usage", "schemas only", "no filter", "nosiard",
                           "corrupt", "nometadata", "badmetadata", "paren",
                           "bracket", "mkdtemp", "unopenable", "full"},
                    mode \in {"file", "dir"} }

FailureScenario(d) ==
    LET e == d[1]
        base == ArchiveScenario(
                   <<[name |-> "s1", types |-> <<>>,
                      tables |-> <<PlainTable("T", 1, PlainContent(1, 10))>>]>>,
                   d[2], "")
        members == [q \in DOMAIN base.payload \ {MetadataMember} |-> base.payload[q]]
    IN  [base EXCEPT
           !.argv = CASE e = "usage" ->
                           [argc |-> 1, siardfile |-> "", sqlfile |-> "",
                            schema_filter |-> ""]
                      [] e = "schemas only" ->
                           [@ EXCEPT !.argc = 2, !.sqlfile = ""]
                      [] e = "no filter" -> [@ EXCEPT !.argc = 3]
                      [] e = "paren" -> [@ EXCEPT !.schema_filter = "("]
                      [] e = "bracket" -> [@ EXCEPT !.schema_filter = "[a"]
                      [] OTHER -> @,
           !.mode = CASE e = "nosiard" -> "none"
                      [] e = "corrupt" /\ d[2] = "file" -> "corrupt"
                      [] OTHER -> @,
           !.payload = CASE e = "nometadata" -> members
                         [] e = "badmetadata" ->
                              members @@ (MetadataMember :> BytesFile(<<0>>))
                         [] OTHER -> @,
           !.mkdtemp_ok = (e # "mkdtemp"),
           !.sink = CASE e = "unopenable" -> "unopenable"
                      [] e = "full" -> "full"
                      [] OTHER -> "ok"]

\* The lobFolder of the archive, of the column x and of its field
ArchiveLobFolders == {"", "al"}
ColumnLobFolders == {"", "cl", "/x"}
FieldLobFolders == {"", "fl"}

\* A <field> of a column
Field(name, lobFolder) == [name |-> name, lobFolder |-> lobFolder, fields |-> <<>>]

\* The udt U2 of the schema s1 of LobScenario, with the attribute b
LobSchemaTypes ==
    <<[category |-> "udt", name |-> "U2", base |-> "", has_attributes |-> TRUE,
       attributes |-> <<SimpleColumn("b", "BLOB")>>]>>

\* The name of the LOB file of LobScenario
LobFile == "r1.bin"

\* The folder d below the folder p: d when it is absolute or p is empty
FolderBelow(p, d) ==
    IF d # "" /\ CharAt(d, 1) = "/" THEN d
    ELSE IF p = "" THEN d
    ELSE IF d = "" THEN p
    ELSE p \o "/" \o d

\* A table with the single column x and one row whose cell names the LOB
\* file LobFile: x is a BLOB column (simple), an array of one BLOB (array)
\* or of the udt U2 (udt); the metadata declares the field of the nested
\* cell (fields) or no field (nofields).  The archive, the column and the
\* field declare the lobFolders al, cl and fl, and the LOB file is where
\* these folders lead: in the archive, or outside of it when cl is absolute.
LobCases ==
    { <<al, cl, "simple", "nofields", "", mode>> :
         al \in ArchiveLobFolders, cl \in ColumnLobFolders, mode \in {"file", "dir"} }
    \cup { <<al, cl, sh, "nofields", "", mode>> :
         al \in ArchiveLobFolders, cl \in ColumnLobFolders, sh \in {"array", "udt"},
         mode \in {"file", "dir"} }
    \cup { <<al, cl, sh, "fields", fl, mode>> :
         al \in ArchiveLobFolders, cl \in ColumnLobFolders, sh \in {"array", "udt"},
         fl \in FieldLobFolders, mode \in {"file", "dir"} }

LobScenario(d) ==
    LET fields == IF d[4] = "fields"
                  THEN <<Field(IF d[3] = "array" THEN "x[1]" ELSE "b", d[5])>>
                  ELSE <<>>
        col0 == CASE d[3] = "simple" -> SimpleColumn("x", "BLOB")
                  [] d[3] = "array" -> ArrayColumn("x", "BLOB", 1)
                  [] OTHER -> TypedColumn("x", "s1", "U2")
        col  == [col0 EXCEPT !.lobFolder = d[2], !.fields = fields]
        cell == CASE d[3] = "simple" -> FileElement("c1", LobFile)
                  [] d[3] = "array" ->
                       ParentElement("c1", <<FileElement("a1", LobFile)>>)
                  [] OTHER -> ParentElement("c1", <<FileElement("u1", LobFile)>>)
        schemas == <<[name |-> "s1", types |-> LobSchemaTypes,
                      tables |-> <<[name |-> "T", columns |-> <<col>>,
                                    primaryKey |-> <<>>, candidateKeys |-> <<>>,
                                    file |-> XmlFile(ParentElement("table",
                                                <<ParentElement("row", <<cell>>)>>))]>>]>>
        base == ArchiveScenario(schemas, d[6], "")
        where == FolderBelow(FolderBelow(FolderBelow(d[1], d[2]), d[5]), LobFile)
    IN  [base EXCEPT
           !.payload =
               (MetadataMember :>
                   XmlFile([ArchiveMetadata(schemas) EXCEPT !.lobFolder = d[1]]))
               @@ (IF CharAt(where, 1) = "/" THEN <<>>
                   ELSE (where :> BytesFile(LobBytes)))
               @@ @,
           !.outside = IF CharAt(where, 1) = "/"
                       THEN (where :> BytesFile(LobBytes)) ELSE <<>>]

\* The types of the schema s1 of NestScenario: the udt P with the attributes
\* x INTEGER and ys INTEGER[2], and the udt Q with the attributes p of the
\* type P and z INTEGER
NestSchemaTypes ==
    <<[category |-> "udt", name |-> "P", base |-> "", has_attributes |-> TRUE,
       attributes |-> <<SimpleColumn("x", "INTEGER"), ArrayColumn("ys", "INTEGER", 2)>>],
      [category |-> "udt", name |-> "Q", base |-> "", has_attributes |-> TRUE,
       attributes |-> <<TypedColumn("p", "s1", "P"), SimpleColumn("z", "INTEGER")>>]>>

\* The element <tag> of a value of the type P: <u1> with the number first,
\* <u2> with <a1> and <a2> and the two numbers after first.  The elements
\* whose path from the cell (at, "/", tag of the element) is in miss are
\* left out.
NestP(tag, at, miss, first) ==
    ParentElement(tag, Flatten(<<
        IF (at \o "u1") \in miss THEN <<>> ELSE <<TextElement("u1", to_string(first))>>,
        IF (at \o "u2") \in miss THEN <<>>
        ELSE <<ParentElement("u2", Flatten(<<
                  IF (at \o "u2/a1") \in miss THEN <<>>
                  ELSE <<TextElement("a1", to_string(first + 1))>>,
                  IF (at \o "u2/a2") \in miss THEN <<>>
                  ELSE <<TextElement("a2", to_string(first + 2))>>>>))>>>>))

\* The paths of the elements below the element of a value of the type P
NestPathsP == {"u1", "u2", "u2/a1", "u2/a2"}

\* The paths of the elements of a cell of each kind of column: of the type P,
\* an array of two P, of the type Q, an array of three INTEGER
NestPaths ==
    [P |-> NestPathsP,
     PP |-> {"a1", "a2"} \cup {"a1/" \o q : q \in NestPathsP} \cup {"a2/" \o q : q \in NestPathsP},
     Q |-> {"u1", "u2"} \cup {"u1/" \o q : q \in NestPathsP},
     III |-> {"a1", "a2", "a3"}]

\* The most elements left out of a cell
MaxMissing == 2

\* The sequences of at most n paths of ps
RECURSIVE PathSeqs(_, _)
PathSeqs(ps, n) ==
    IF n = 0 THEN {<<>>}
    ELSE {<<>>} \cup { <<p>> \o s : p \in ps, s \in PathSeqs(ps, n - 1) }

\* A table with the single column x of the kind d[1] and one row whose cell
\* holds all elements of a value of that kind but those of the paths d[2]
NestCases ==
    { <<k, m>> : k \in {"P"}, m \in PathSeqs(NestPaths.P, MaxMissing) }
    \cup { <<k, m>> : k \in {"PP"}, m \in PathSeqs(NestPaths.PP, MaxMissing) }
    \cup { <<k, m>> : k \in {"Q"}, m \in PathSeqs(NestPaths.Q, MaxMissing) }
    \cup { <<k, m>> : k \in {"III"}, m \in PathSeqs(NestPaths.III, MaxMissing) }

NestScenario(d) ==
    LET miss == {d[2][k] : k \in 1..Len(d[2])}
        col == CASE d[1] = "P" -> TypedColumn("x", "s1", "P")
                 [] d[1] = "PP" -> [TypedColumn("x", "s1", "P") EXCEPT !.cardinality = 2]
                 [] d[1] = "Q" -> TypedColumn("x", "s1", "Q")
                 [] OTHER -> ArrayColumn("x", "INTEGER", 3)
        cell == CASE d[1] = "P" -> NestP("c1", "", miss, 7)
                  [] d[1] = "PP" ->
                       ParentElement("c1", Flatten(<<
                          IF "a1" \in miss THEN <<>> ELSE <<NestP("a1", "a1/", miss, 1)>>,
                          IF "a2" \in miss THEN <<>> ELSE <<NestP("a2", "a2/", miss, 4)>>>>))
                  [] d[1] = "Q" ->
                       ParentElement("c1", Flatten(<<
                          IF "u1" \in miss THEN <<>> ELSE <<NestP("u1", "u1/", miss, 7)>>,
                          IF "u2" \in miss THEN <<>> ELSE <<TextElement("u2", "6")>>>>))
                  [] OTHER ->
                       ParentElement("c1", Flatten(SeqOf(3, LAMBDA i :
                          IF ("a" \o to_string(i)) \in miss THEN <<>>
                          ELSE <<TextElement("a" \o to_string(i), to_string(i))>>)))
    IN  ArchiveScenario(
           <<[name |-> "s1", types |-> NestSchemaTypes,
              tables |-> <<[name |-> "T", columns |-> <<col>>,
                            primaryKey |-> <<>>, candidateKeys |-> <<>>,
                            file |-> XmlFile(ParentElement("table",
                                        <<ParentElement("row", <<cell>>)>>))]>>]>>,
           "dir", "")

\* How a schema declares the type E: as a distinct type, as a udt with the
\* attribute n, as a udt with <attributes> and no attribute (udt_empty), as
\* a udt without <attributes> (udt_bare), as a udt without name (unnamed),
\* or not at all (none)
TypeKinds == {"distinct", "udt", "udt_empty", "udt_bare", "unnamed", "none"}

\* The <types> of a schema that declares E in the way k
KindTypes(k) ==
    CASE k = "none" -> <<>>
      [] k = "distinct" ->
            <<[category |-> "distinct", name |-> "E", base |-> "INTEGER",
               has_attributes |-> FALSE, attributes |-> <<>>]>>
      [] OTHER ->
            <<[category |-> "udt", name |-> IF k = "unnamed" THEN "" ELSE "E",
               base |-> "", has_attributes |-> (k # "udt_bare"),
               attributes |-> IF k \in {"udt", "unnamed"}
                              THEN <<SimpleColumn("n", "INTEGER")>> ELSE <<>>]>>

\* The schemas s1 and s2 declare E in the ways d[1] and d[2]; the table of
\* each of them has one column of the type E of the other schema and one
\* row; d[3] is the schema filter.
TypeCases == { <<k1, k2, f>> : k1 \in TypeKinds, k2 \in TypeKinds, f \in {"", "S1"} }

TypeScenario(d) ==
    ArchiveScenario(
        SeqOf(2, LAMBDA i :
            [name |-> "s" \o to_string(i), types |-> KindTypes(d[i]),
             tables |-> <<[name |-> "T" \o to_string(i),
                           columns |-> <<TypedColumn("x", "s" \o to_string(3 - i), "E")>>,
                           primaryKey |-> <<>>, candidateKeys |-> <<>>,
                           file |-> XmlFile(ParentElement("table",
                              <<ParentElement("row",
                                  <<ParentElement("c1", <<TextElement("u1", "5")>>)>>)>>))]>>]),
        "dir", d[3])

Init ==
    \/ \E d \in NestCases : InitScenario(NestScenario(d))
    \/ \E d \in LobCases : InitScenario(LobScenario(d))
    \/ \E d \in OrderCases : InitScenario(OrderScenario(d))
    \/ \E d \in FilterCases : InitScenario(FilterScenario(d))
    \/ \E d \in ContentCases : InitScenario(ContentScenario(d))
    \/ \E d \in CellCases : InitScenario(CellScenario(d))
    \/ \E d \in FailureCases : InitScenario(FailureScenario(d))
    \/ \E d \in TypeCases : InitScenario(TypeScenario(d))

Next ==
    \/ main
    \/ IDA_siard2sql
    \/ load
    \/ tree_to_sql
    \/ next_schema
    \/ next_table
    \/ load_content
    \/ insert_row
    \/ end_table
    \/ epilogue
    \/ IDA_siard2sql_again
    \/ main_return

Spec == Init /\ [][Next]_vars

\* The type mapper alone: the variables of the run stay as they are
InitType ==
    /\ argv = CommandLine(SiardFile, "")
    /\ cwd = Cwd
    /\ dirstack = <<>>
    /\ minizip = NoZip
    /\ files = <<>>
    /\ dirs = BaseDirs
    /\ mkdtemp_ok = TRUE
    /\ sink = "ok"
    /\ typecache = <<>>
    /\ tm_arg = ""
    /\ tm_ret = "none"
    /\ tm_hit = FALSE
    /\ util = NoCall
    /\ InitRun("idle")

\* One call siard_type_to_sqlite3(s) of a client of the type mapper
TypeMapperCall(s) ==
    /\ \/ s \in DOMAIN typecache
       \/ Cardinality(DOMAIN typecache) < MaxCached
    /\ tm_arg' = s
    /\ tm_ret' = siard_type_to_sqlite3(typecache, s).ret
    /\ tm_hit' = (s \in DOMAIN typecache)
    /\ typecache' = siard_type_to_sqlite3(typecache, s).typecache
    /\ UNCHANGED <<util, envVars, runVars>>

NextType == \E s \in TypeStrings : TypeMapperCall(s)

SpecType == InitType /\ [][NextType]_vars

-----------------------------------------------------------------------------
(* The utility functions alone: a client calls one of them *)

\* The state in which nothing but utility functions is called
InitUtil ==
    /\ argv = CommandLine(SiardFile, "")
    /\ cwd = Cwd
    /\ dirstack = <<>>
    /\ minizip = NoZip
    /\ files = <<>>
    /\ dirs = BaseDirs
    /\ mkdtemp_ok = TRUE
    /\ sink = "ok"
    /\ typecache = <<>>
    /\ tm_arg = ""
    /\ tm_ret = "none"
    /\ tm_hit = FALSE
    /\ util = NoCall
    /\ InitRun("idle")

\* The strings made of at most n of the pieces
RECURSIVE StringsOf(_, _)
StringsOf(pieces, n) ==
    IF n = 0 THEN {""}
    ELSE {""} \cup { p \o t : p \in pieces, t \in StringsOf(pieces, n - 1) }

\* The most pieces a text given to siard_decode is made of
MaxPieces == 3

\* The pieces of the texts given to siard_decode: letters, whole escapes in
\* both cases of the digits, the four characters that open an escape, an
\* escape with a letter that is no digit, a backslash, the rest of an escape
DecodePieces ==
    {"A", "\\u0000", "\\u005c", "\\u00e9", "\\u00E9", "\\u00", "\\u00z", "\\", "u00", "4", "B"}

\* A call siard_decode(s, size, has_specials): the bytes stored
siard_decode_call(s) ==
    /\ util.f = "none"
    /\ util' = [f |-> "siard_decode", arg |-> s, ret |-> siard_decode(s)]
    /\ UNCHANGED <<typeVars, envVars, runVars>>

\* The pieces of the texts given to enclose_sqlite_single_quote
QuotePieces == {"'", "a", "\\", "''b"}

\* A call enclose_sqlite_single_quote(s)
enclose_sqlite_single_quote_call(s) ==
    /\ util.f = "none"
    /\ util' = [f |-> "enclose_sqlite_single_quote", arg |-> s, ret |-> enclose_sqlite_single_quote(s)]
    /\ UNCHANGED <<typeVars, envVars, runVars>>

\* The most bytes given to a blob encoder
MaxBytes == 9

\* Byte values in the order the byte arrays take them: 0, both sides of 16
\* and of 128, 255
TestBytes == <<0, 9, 16, 127, 128, 171, 255, 10, 160, 1>>

\* The byte array of len bytes that starts at place seed of TestBytes
BytesFrom(seed, len) == [i \in 1..len |-> TestBytes[((i + seed - 1) % Len(TestBytes)) + 1]]

\* The byte arrays given to the blob encoders
ByteArrays == { BytesFrom(seed, len) : seed \in 0..2, len \in 0..MaxBytes }

\* The sizes of the buffer the file encoders are run with: the size of the
\* program, and small sizes that make the files given here fill the buffer
\* once and several times, with and without a rest of less than four bytes
BufferSizes == {1, 3, 4, 5, FILE_BLOB_BUFF_SIZE}

\* The bytes of the characters of a string
BytesOfString(s) == [i \in 1..Len(s) |-> Ord(CharAt(s, i))]

\* A call string_to_blob_literal(s)
string_to_blob_literal_call(s) ==
    /\ util.f = "none"
    /\ util' = [f |-> "string_to_blob_literal", arg |-> BytesOfString(s), size |-> 0, ret |-> string_to_blob_literal(s)]
    /\ UNCHANGED <<typeVars, envVars, runVars>>

\* A call char_array_to_blob_literal(a, size)
char_array_to_blob_literal_call(a) ==
    /\ util.f = "none"
    /\ util' = [f |-> "char_array_to_blob_literal", arg |-> a, size |-> 0, ret |-> char_array_to_blob_literal(a)]
    /\ UNCHANGED <<typeVars, envVars, runVars>>

\* A call char_array_to_blob_literal_append(a, size, s) with an empty s
char_array_to_blob_literal_append_call(a) ==
    /\ util.f = "none"
    /\ util' = [f |-> "char_array_to_blob_literal_append", arg |-> a, size |-> 0, ret |-> char_array_to_blob_literal_append(a)]
    /\ UNCHANGED <<typeVars, envVars, runVars>>

\* The file system in which the file f.bin of the working directory holds
\* the bytes a
OneFile(a) == (Cwd \o "/f.bin") :> [k |-> "bytes", v |-> a]

\* A call file_to_blob_literal("f.bin"), the buffer being of size bytes
file_to_blob_literal_call(a, size) ==
    /\ util.f = "none"
    /\ util' = [f |-> "file_to_blob_literal", arg |-> a, size |-> size, ret |-> file_to_blob_literal_sized("f.bin", OneFile(a), size)]
    /\ UNCHANGED <<typeVars, envVars, runVars>>

\* A call file_to_blob_literal_append("f.bin", s) with an empty s, the
\* buffer being of size bytes
file_to_blob_literal_append_call(a, size) ==
    /\ util.f = "none"
    /\ util' = [f |-> "file_to_blob_literal_append", arg |-> a, size |-> size, ret |-> file_to_blob_literal_append_sized("f.bin", OneFile(a), size)]
    /\ UNCHANGED <<typeVars, envVars, runVars>>

\* The attributes given to get_extended_category: every field empty or not
TypeAttributes ==
    { [name |-> "a", type |-> t, typeSchema |-> ts, typeName |-> tn,
       cardinality |-> c, base |-> b] :
         t \in {"", "INTEGER"}, ts \in {"", "s1"}, tn \in {"", "P"},
         c \in {0, 2}, b \in {"", "VARCHAR(8)"} }

\* A call a.get_extended_category()
get_extended_category_call(a) ==
    /\ util.f = "none"
    /\ util' = [f |-> "get_extended_category", arg |-> a, ret |-> get_extended_category(a)]
    /\ UNCHANGED <<typeVars, envVars, runVars>>

\* The folders given to combine_lobfolders
FolderStrings == {"", "a", "c/d", "/b", "/"}

\* A call combine_lobfolders(parent_lobfolder, lobfolder)
combine_lobfolders_call(parent_lobfolder, lobfolder) ==
    /\ util.f = "none"
    /\ util' = [f |-> "combine_lobfolders", arg |-> <<parent_lobfolder, lobfolder>>, ret |-> combine_lobfolders(parent_lobfolder, lobfolder)]
    /\ UNCHANGED <<typeVars, envVars, runVars>>

\* The most <field> elements of the column given to IDA_SIARDlobfolder::init
MaxFields == 2

\* The names of the fields of the column x, in their order
FieldNames == <<"x[1]", "b", "x[2]", "c">>

\* The <field> elements g a field may hold: none, or one with a lobFolder
InnerFields == {<<>>} \cup { <<Field("g", gl)>> : gl \in {"", "gl", "/z"} }

\* The sequences of n <field> elements of the column x
RECURSIVE FieldTrees(_)
FieldTrees(n) ==
    IF n = 0 THEN {<<>>}
    ELSE { Append(fs, [Field(FieldNames[n], fl) EXCEPT !.fields = inner]) :
              fs \in FieldTrees(n - 1), fl \in {"", "fl", "/y"}, inner \in InnerFields }

\* The columns given to IDA_SIARDlobfolder::init
FieldColumns ==
    { [SimpleColumn("x", "BLOB") EXCEPT !.lobFolder = cl, !.fields = fs] :
         cl \in ColumnLobFolders, fs \in UNION { FieldTrees(n) : n \in 0..MaxFields } }

\* A call IDA_SIARDlobfolder::init(siardURI, column_name, column,
\* siard_lobfolder): the map lobfolder_info it leaves
lobfolder_init_call(column, siard_lobfolder) ==
    /\ util.f = "none"
    /\ util' = [f |-> "lobfolder_init", arg |-> <<siard_lobfolder, column>>, ret |-> lobfolder_init(SiardFile, column, siard_lobfolder)]
    /\ UNCHANGED <<typeVars, envVars, runVars>>

\* A call is made when none was made yet
NextUtil ==
    \/ util.f = "none" /\ \E s \in StringsOf(QuotePieces, MaxPieces) : string_to_blob_literal_call(s)
    \/ util.f = "none" /\ \E a \in ByteArrays : char_array_to_blob_literal_call(a)
    \/ util.f = "none" /\ \E a \in ByteArrays : char_array_to_blob_literal_append_call(a)
    \/ util.f = "none" /\ \E a \in ByteArrays, size \in BufferSizes : file_to_blob_literal_call(a, size)
    \/ util.f = "none" /\ \E a \in ByteArrays, size \in BufferSizes : file_to_blob_literal_append_call(a, size)
    \/ util.f = "none" /\ \E p \in FolderStrings, d \in FolderStrings : combine_lobfolders_call(p, d)
    \/ util.f = "none" /\ \E column \in FieldColumns, al \in ArchiveLobFolders : lobfolder_init_call(column, al)
    \/ util.f = "none" /\ \E s \in StringsOf(QuotePieces, MaxPieces) : enclose_sqlite_single_quote_call(s)
    \/ util.f = "none" /\ \E s \in StringsOf(DecodePieces, MaxPieces) : siard_decode_call(s)
    \/ util.f = "none" /\ \E a \in TypeAttributes : get_extended_category_call(a)

SpecUtil == InitUtil /\ [][NextUtil]_vars

-----------------------------------------------------------------------------
(* The Data-Type Table alone: a client registers types in it *)

\* The most entries the clients of the table register
MaxEntries == 3

\* The state in which nothing but the table is used
InitTable ==
    /\ argv = CommandLine(SiardFile, "")
    /\ cwd = Cwd
    /\ dirstack = <<>>
    /\ minizip = NoZip
    /\ files = <<>>
    /\ dirs = BaseDirs
    /\ mkdtemp_ok = TRUE
    /\ sink = "ok"
    /\ typecache = <<>>
    /\ tm_arg = ""
    /\ tm_ret = "none"
    /\ tm_hit = FALSE
    /\ util = NoCall
    /\ InitRun("idle")

\* The columns and attributes that declare an array: of a simple type or of
\* a type of a schema
ArrayElements ==
    { [ArrayColumn(n, t[1], c) EXCEPT !.typeSchema = t[2], !.typeName = t[3]] :
         n \in {"x", "x_1"}, c \in {1, 2},
         t \in {<<"INTEGER", "", "">>, <<"", "s1", "P">>} }

\* A call DataType_Table.add_array_data_type(schema_name, e)
add_array_data_type_call(schema_name, e) ==
    /\ DataType_Table.datatype_count < MaxEntries
    /\ \E r \in {add_array_data_type(DataType_Table, schema_name, e)} :
          /\ DataType_Table' = r.dtt
          /\ util' = [f |-> "add_array_data_type", arg |-> <<schema_name, e>>, ret |-> r.name]
    /\ UNCHANGED <<typeVars, envVars, pc, calls, M, is, it, seen_tables, rep_tables,
                   table_first_schema, iuk, C, ir, sqlout, ret, exit_status>>

\* A call DataType_Table.add_type(type_schema, type_name, typenode) with the
\* node of a distinct type
add_type_call(type_schema, type_name) ==
    /\ DataType_Table.datatype_count < MaxEntries
    /\ DataType_Table' = add_type(DataType_Table, type_schema, type_name,
                                  distinct_typenode(type_schema, type_name, "INTEGER"))
    /\ util' = [f |-> "add_type", arg |-> <<type_schema, type_name>>, ret |-> ""]
    /\ UNCHANGED <<typeVars, envVars, pc, calls, M, is, it, seen_tables, rep_tables,
                   table_first_schema, iuk, C, ir, sqlout, ret, exit_status>>

NextTable ==
    \/ \E s \in {"s1", "s2"}, e \in ArrayElements : add_array_data_type_call(s, e)
    \/ \E s \in {"s1", "s2"}, n \in {"P", "x"} : add_type_call(s, n)

SpecTable == InitTable /\ [][NextTable]_vars

-----------------------------------------------------------------------------
(* The complex formatter alone: a cell is formatted for a type of the table *)

\* The type graphs: the udt P that has an attribute of the type P (udt), the
\* udt P that has an array of P (array), the distinct type X of the schema
\* without name whose base is X, and the distinct type D of s1 with this
\* base (distinct), the distinct types X and Y of the schema without name
\* that are the base of each other (distinct2), and the types of s1 without
\* cycle: P, Q and the distinct type D (acyclic)
CycleKinds == {"udt", "array", "distinct", "distinct2", "acyclic"}

CycleSchemas(kind) ==
    LET Distinct(name, base) ==
            [category |-> "distinct", name |-> name, base |-> base,
             has_attributes |-> FALSE, attributes |-> <<>>]
        Udt(name, attributes) ==
            [category |-> "udt", name |-> name, base |-> "",
             has_attributes |-> TRUE, attributes |-> attributes]
        Schema(name, types) == [name |-> name, types |-> types, tables |-> <<>>]
    IN  CASE kind = "udt" ->
               <<Schema("s1", <<Udt("P", <<TypedColumn("p", "s1", "P"),
                                           SimpleColumn("x", "INTEGER")>>)>>)>>
          [] kind = "array" ->
               <<Schema("s1", <<Udt("P", <<[TypedColumn("ps", "s1", "P") EXCEPT !.cardinality = 1],
                                           SimpleColumn("x", "INTEGER")>>)>>)>>
          [] kind = "distinct" ->
               <<Schema("", <<Distinct("X", "X")>>), Schema("s1", <<Distinct("D", "X")>>)>>
          [] kind = "distinct2" ->
               <<Schema("", <<Distinct("X", "Y"), Distinct("Y", "X")>>),
                 Schema("s1", <<Distinct("D", "Y")>>)>>
          [] OTHER ->
               <<Schema("s1", NestSchemaTypes \o <<Distinct("D", "INTEGER")>>)>>

\* The state in which the types of the schemas are registered and nothing
\* but the formatter is called
InitFormat ==
    /\ argv = CommandLine(SiardFile, "")
    /\ cwd = Cwd
    /\ dirstack = <<>>
    /\ minizip = NoZip
    /\ files = <<>>
    /\ dirs = BaseDirs
    /\ mkdtemp_ok = TRUE
    /\ sink = "ok"
    /\ typecache = <<>>
    /\ tm_arg = ""
    /\ tm_ret = "none"
    /\ tm_hit = FALSE
    /\ util = NoCall
    /\ pc = "idle"
    /\ calls = 1
    /\ M = NoMetadata
    /\ is = 0
    /\ it = 0
    /\ seen_tables = {}
    /\ rep_tables = {}
    /\ table_first_schema = <<>>
    /\ iuk = 0
    /\ \E kind \in CycleKinds :
          DataType_Table = register_types(EmptyDataTypeTable, CycleSchemas(kind), 1)
    /\ C = NoContent
    /\ ir = 0
    /\ sqlout = <<>>
    /\ ret = 1
    /\ exit_status = -1

\* The element <tags[1]> that holds <tags[2]> and so on, n elements with the
\* tags taken in turn, the innermost with the text 5
RECURSIVE Chain(_, _, _)
Chain(tags, k, n) ==
    IF k >= n THEN TextElement(tags[((k - 1) % Len(tags)) + 1], "5")
    ELSE ParentElement(tags[((k - 1) % Len(tags)) + 1], <<Chain(tags, k + 1, n)>>)

\* The deepest cell given to the formatter
MaxNesting == 6

\* The cells given to the formatter: <c1> with n elements below it, one in
\* the other
NestedCells ==
    { ParentElement("c1", <<Chain(tags, 1, n)>>) :
         tags \in {<<"u1">>, <<"u1", "a1">>, <<"u2">>},
         n \in 1..MaxNesting }
    \cup {TextElement("c1", "5"), NullElement}

\* tree_to_sql calls append_complex_data_type_content(s, el,
\* siard_typeSchema, siard_typeName) for a cell
append_complex_data_type_content_call(el, siard_typeSchema, siard_typeName) ==
    /\ util.f = "none"
    /\ \E r \in {formatter_enter(
                     [f |-> "append_complex_data_type_content",
                      arg |-> <<el, siard_typeSchema, siard_typeName>>, s |-> "",
                      stack |-> <<>>, depth |-> 0, returned |-> FALSE, signaled |-> FALSE],
                     el, siard_typeSchema, siard_typeName, 0, typecache)} :
          /\ util' = r.u
          /\ typecache' = r.typecache
    /\ UNCHANGED <<tm_arg, tm_ret, tm_hit, envVars, runVars>>

\* The call goes on until it returns or the stack is used up
append_complex_data_type_content_step ==
    /\ util.f = "append_complex_data_type_content"
    /\ ~util.returned
    /\ ~util.signaled
    /\ \E r \in {formatter_step(util, typecache)} :
          /\ util' = r.u
          /\ typecache' = r.typecache
    /\ UNCHANGED <<tm_arg, tm_ret, tm_hit, envVars, runVars>>

NextFormat ==
    \/ util.f = "none" /\ \E el \in NestedCells, n \in {"P", "Q", "D"} : append_complex_data_type_content_call(el, "s1", n)
    \/ append_complex_data_type_content_step

SpecFormat == InitFormat /\ [][NextFormat]_vars

-----------------------------------------------------------------------------
(* The output of a run *)

\* The positions of the statements in the output (comment lines left out)
StatementIndexes == {i \in 1..Len(sqlout) : sqlout[i].kind # "-- schema"}

\* The positions of the statements of a kind written for table it of
\* schema is
LinesOf(kind, i, j) ==
    {n \in 1..Len(sqlout) :
        sqlout[n].kind = kind /\ sqlout[n].at[1] = i /\ sqlout[n].at[2] = j}

\* The run is over and tree_to_sql went through all schemas
OutputComplete ==
    pc = "exited" /\ M.loaded /\ sink = "ok" /\ argv.argc >= 3

\* CREATE TABLE, INSERT INTO, CREATE UNIQUE INDEX
KindRank(kind) ==
    CASE kind = "CREATE TABLE" -> 0
      [] kind = "INSERT INTO" -> 1
      [] OTHER -> 2

-----------------------------------------------------------------------------
(* C1 *)

\* C1: the statements of the output stand in the order of the metadata:
\* schemas in document order, the tables of a schema in document order, and
\* for each table its CREATE TABLE, then its INSERT INTO statements in row
\* order, then its CREATE UNIQUE INDEX statements in key order; each
\* statement names the table it was written for.
C1_OutputOrder ==
    /\ \A i \in StatementIndexes :
          sqlout[i].table = M.root.schemas[sqlout[i].at[1]].tables[sqlout[i].at[2]].name
    /\ \A i, j \in StatementIndexes :
          i < j =>
             LET a == sqlout[i]
                 b == sqlout[j]
             IN  /\ a.at[1] <= b.at[1]
                 /\ a.at[1] = b.at[1] => a.at[2] <= b.at[2]
                 /\ (a.at[1] = b.at[1] /\ a.at[2] = b.at[2]) =>
                       /\ KindRank(a.kind) <= KindRank(b.kind)
                       /\ a.kind # "CREATE TABLE" \/ b.kind # "CREATE TABLE"
                       /\ a.kind = b.kind => a.at[3] < b.at[3]

\* A run ends with two rows and two unique indexes written for T and the
\* statements of U after them
C1_Witness ==
    /\ pc = "exited"
    /\ Cardinality(LinesOf("INSERT INTO", 1, 1)) = 2
    /\ Cardinality(LinesOf("CREATE UNIQUE INDEX", 1, 1)) = 2
    /\ LinesOf("CREATE TABLE", 1, 2) # {}
    /\ LinesOf("INSERT INTO", 1, 2) # {}

-----------------------------------------------------------------------------
(* C2 *)

\* Schema i passes the filter of the command line
C2_Translated(i) ==
    \/ argv.schema_filter = ""
    \/ regex_search_icase(M.root.schemas[i].name, argv.schema_filter)

\* The places <<schema, table>> of the translated schemas where a table of
\* the name T is defined
C2_Occurrences(T) ==
    { o \in UNION { {<<i, j>> : j \in 1..Len(M.root.schemas[i].tables)} :
                    i \in 1..Len(M.root.schemas) } :
        C2_Translated(o[1]) /\ M.root.schemas[o[1]].tables[o[2]].name = T }

\* The first of them in document order
C2_First(T) ==
    CHOOSE o \in C2_Occurrences(T) :
       \A q \in C2_Occurrences(T) : o[1] < q[1] \/ (o[1] = q[1] /\ o[2] <= q[2])

\* C2: no table name has two CREATE TABLE statements; when the run is over,
\* a table name defined in the translated schemas has exactly one CREATE
\* TABLE, written for its first occurrence in document order, and nothing is
\* written for its later occurrences.
C2_OneCreateTable ==
    /\ \A i, j \in 1..Len(sqlout) :
          (sqlout[i].kind = "CREATE TABLE" /\ sqlout[j].kind = "CREATE TABLE"
             /\ sqlout[i].table = sqlout[j].table) => i = j
    /\ OutputComplete =>
          \A T \in TableNames :
             \A o \in C2_Occurrences(T) :
                IF o = C2_First(T)
                THEN \E n \in LinesOf("CREATE TABLE", o[1], o[2]) : sqlout[n].table = T
                ELSE \A n \in 1..Len(sqlout) :
                        sqlout[n].kind = "-- schema"
                           \/ sqlout[n].at[1] # o[1] \/ sqlout[n].at[2] # o[2]

\* A run ends after two translated schemas defined T: the second occurrence
\* was recorded as replicated and T has its statements
C2_Witness ==
    /\ OutputComplete
    /\ \E o, q \in C2_Occurrences("T") : o[1] < q[1]
    /\ rep_tables # {}
    /\ \E n \in 1..Len(sqlout) : sqlout[n].kind = "INSERT INTO" /\ sqlout[n].table = "T"

-----------------------------------------------------------------------------
(* C3 *)

\* The original statement about the filter ^$: no schema matches it and no
\* CREATE TABLE is written, whatever the archive is
C3_AnchorsMatchNoSchema ==
    argv.schema_filter = "^$" =>
       \A n \in 1..Len(sqlout) : sqlout[n].kind # "CREATE TABLE"

\* What the filters of the model select, said without the matcher
C3_Selects(f, name) ==
    CASE f = "" -> TRUE
      [] f = "^$" -> name = ""
      [] f = "S1" -> \E i \in 1..Len(name) :
                        /\ CharAt(name, i) \in {"s", "S"}
                        /\ CharAt(name, i + 1) = "1"
      [] f = "^s" -> CharAt(name, 1) \in {"s", "S"}
      [] OTHER -> FALSE

\* C3: when the run is over, a schema is translated (its comment line is
\* written, and a CREATE TABLE for each of its tables whose name no earlier
\* translated table has) iff the filter is empty or the filter matches some
\* part of its name, case-insensitively; nothing is written for the other
\* schemas.  The filter ^$ selects the schemas with the empty name.
C3_SchemaFilter ==
    OutputComplete =>
       \A i \in 1..Len(M.root.schemas) :
          IF C3_Selects(argv.schema_filter, M.root.schemas[i].name)
          THEN /\ \E n \in 1..Len(sqlout) :
                     sqlout[n].kind = "-- schema" /\ sqlout[n].at[1] = i
               /\ \A j \in 1..Len(M.root.schemas[i].tables) :
                     \E n \in 1..Len(sqlout) :
                        /\ sqlout[n].kind = "CREATE TABLE"
                        /\ sqlout[n].table = M.root.schemas[i].tables[j].name
          ELSE \A n \in 1..Len(sqlout) : sqlout[n].at[1] # i

\* A run with the filter ^$ ends: the schema with the empty name has its
\* CREATE TABLE and the other schema has nothing
C3_Witness ==
    /\ OutputComplete
    /\ argv.schema_filter = "^$"
    /\ Len(M.root.schemas) = 2
    /\ M.root.schemas[1].name = ""
    /\ M.root.schemas[2].name = "s1"
    /\ LinesOf("CREATE TABLE", 1, 1) # {}
    /\ \A n \in 1..Len(sqlout) : sqlout[n].at[1] # 2

-----------------------------------------------------------------------------
(* C4 *)

\* C4: every column marked complex in a CREATE TABLE statement is declared
\* with the affinity TEXT.
C4_ComplexColumnsAreText ==
    \A n \in 1..Len(sqlout) :
       sqlout[n].kind = "CREATE TABLE" =>
          \A k \in 1..Len(sqlout[n].parts) :
             sqlout[n].parts[k].complex_type => sqlout[n].parts[k].sqlite3_type = " TEXT"

-----------------------------------------------------------------------------
(* C5 *)

\* The maximal runs of word characters of s contain the word w: w stands in s
\* from i to j with no word character right before i or right after j.
C5_WholeWord(s, w) ==
    \E i \in 1..Len(s) :
       LET j == i + Len(w) - 1 IN
       /\ j <= Len(s)
       /\ SubSeq(s, i, j) = w
       /\ (i = 1 \/ SubSeq(s, i - 1, i - 1) \notin WordChars)
       /\ (j = Len(s) \/ SubSeq(s, j + 1, j + 1) \notin WordChars)

\* DEC, then white space only, then an opening parenthesis
C5_DecParen(s) ==
    \E i \in 1..Len(s) : \E j \in (i + 3)..Len(s) :
       /\ SubSeq(s, i, i + 2) = "DEC"
       /\ SubSeq(s, j, j) = "("
       /\ \A k \in (i + 3)..(j - 1) : SubSeq(s, k, k) \in SpaceChars

C5_Integer(s) ==
    \E w \in {"BIGINT", "SMALLINT", "INTEGER", "BOOL"} : Contains(s, w)
    \/ C5_WholeWord(s, "INT")

C5_Numeric(s) == Contains(s, "NUMERIC") \/ Contains(s, "DECIMAL") \/ C5_DecParen(s)

C5_Real(s) == \E w \in {"DOUBLE", "FLOAT", "REAL"} : Contains(s, w)

C5_Blob(s) == \E w \in {"BINARY", "BLOB", "VARBINARY"} : Contains(s, w)

\* The documented categories, in the documented order
C5_Categories == <<"INTEGER", "NUMERIC", "REAL", "BLOB">>

C5_Matches(s, c) ==
    CASE c = "INTEGER" -> C5_Integer(s)
      [] c = "NUMERIC" -> C5_Numeric(s)
      [] c = "REAL" -> C5_Real(s)
      [] c = "BLOB" -> C5_Blob(s)

\* r is the first category of the documented order that matches s, else TEXT
C5_IsFirstMatch(s, r) ==
    \/ /\ r = "TEXT"
       /\ \A k \in 1..4 : ~C5_Matches(s, C5_Categories[k])
    \/ \E k \in 1..4 :
          /\ r = C5_Categories[k]
          /\ C5_Matches(s, r)
          /\ \A j \in 1..(k - 1) : ~C5_Matches(s, C5_Categories[j])

\* C5: every call of siard_type_to_sqlite3 returns the first matching category
\* of the order INTEGER, NUMERIC, REAL, BLOB, else TEXT, and every cached
\* entry (hence every result served from the cache) is that same category.
C5_FirstMatchAndCache ==
    /\ tm_ret # "none" => C5_IsFirstMatch(tm_arg, tm_ret)
    /\ \A s \in DOMAIN typecache : C5_IsFirstMatch(s, typecache[s])
    /\ (tm_hit => tm_ret = typecache[tm_arg])

\* A string matching the NUMERIC and the INTEGER patterns is served from the
\* cache as INTEGER.
C5_Witness ==
    /\ tm_hit
    /\ tm_arg = "NUMERIC INT"
    /\ tm_ret = "INTEGER"

-----------------------------------------------------------------------------
(* C6 *)

\* C6: the process ends with the status 0 when the translation succeeded,
\* and with another status when the archive was not found, the filter was
\* no regular expression, the metadata or the archive could not be read
\* (IDA_siard2sql returns -1 in these cases) or the output file could not be
\* opened or written.
C6_ExitStatus ==
    (pc = "exited" /\ argv.argc >= 3) =>
       IF ret = -1 \/ sink # "ok"
       THEN exit_status # 0
       ELSE exit_status = 0

-----------------------------------------------------------------------------
(* C7 *)

\* The archive holds the member name
C7_ArchiveHas(name) ==
    IF M.siardURI \in dirs
    THEN (M.siardURI \o "/" \o name) \in DOMAIN files
    ELSE /\ M.siardURI \in DOMAIN files
         /\ files[M.siardURI].k = "zip"
         /\ name \in DOMAIN files[M.siardURI].v

\* The content of the member name of the archive
C7_ArchiveMember(name) ==
    IF M.siardURI \in dirs
    THEN files[M.siardURI \o "/" \o name]
    ELSE files[M.siardURI].v[name]

\* The table XML member of table j of schema i
C7_TableXml(i, j) ==
    "content/" \o M.root.schemas[i].folder \o "/" \o M.root.schemas[i].tables[j].folder
       \o "/" \o M.root.schemas[i].tables[j].folder \o ".xml"

\* C7: rows are read for a table only when its table XML member is in the
\* archive and is an XML document; when it is missing or fails to load the
\* CREATE TABLE of the table is written all the same, no INSERT INTO is, and
\* the unique indexes of the table are written next.
C7_NoRowsWithoutTableXml ==
    /\ pc = "rows" =>
          /\ C7_ArchiveHas(C7_TableXml(is, it))
          /\ C7_ArchiveMember(C7_TableXml(is, it)).k = "xml"
    /\ pc = "end_table" =>
          /\ LinesOf("CREATE TABLE", is, it) # {}
          /\ LinesOf("INSERT INTO", is, it) = {}
    /\ (pc = "table" /\ it > 1 /\ LinesOf("CREATE TABLE", is, it - 1) # {}) =>
          Cardinality(LinesOf("CREATE UNIQUE INDEX", is, it - 1))
             = Len(M.root.schemas[is].tables[it - 1].candidateKeys)
-----------------------------------------------------------------------------
(* C8 *)

\* The cells <c<i>> of a row, in document order
C8_Cells(row, i) == SelectSeq(row.kids, LAMBDA e : e.tag = "c" \o to_string(i))

\* The <row> elements of the table document that was loaded
C8_LoadedRows ==
    With(realpath_nocheck(C.table_file, cwd), LAMBDA p :
       SelectSeq(files[p].v.kids, LAMBDA e : e.tag = "row"))

\* While the rows of a table are read: the rows before the next one have
\* one INSERT INTO each, written in row order; each has as many values as
\* the table has columns in the metadata, the value at a position without
\* cell is '', and the value of a plain INTEGER column is the text of the
\* cell at its position.
C8_RowValues ==
    pc = "rows" =>
       LET cols == M.root.schemas[is].tables[it].columns
           L    == LinesOf("INSERT INTO", is, it)
       IN  /\ Cardinality(L) = ir - 1
           /\ ir - 1 <= Len(C8_LoadedRows)
           /\ \A n \in L :
                 /\ sqlout[n].at[3] \in 1..(ir - 1)
                 /\ sqlout[n].table = M.root.schemas[is].tables[it].name
                 /\ \A m \in L : (m < n) <=> (sqlout[m].at[3] < sqlout[n].at[3])
                 /\ Len(sqlout[n].parts) = Len(cols)
                 /\ \A i \in 1..Len(cols) :
                       LET cells == C8_Cells(C8_LoadedRows[sqlout[n].at[3]], i) IN
                       /\ cells = <<>> => sqlout[n].parts[i] = "''"
                       /\ ( /\ cells # <<>>
                            /\ cols[i].type = "INTEGER"
                            /\ cols[i].cardinality = 0
                            /\ cells[1].file = "" )
                          => sqlout[n].parts[i] = cells[1].text

\* The rows of a table are left only when each <row> of the document has its
\* INSERT INTO.
C8_AllRows ==
    (pc = "rows" /\ pc' # "rows") =>
       Cardinality(LinesOf("INSERT INTO", is, it)) = Len(C8_LoadedRows)

\* C8: for a table whose content XML loads, one INSERT INTO is written per
\* <row>, in row order, with N values in column order, N the number of
\* columns of the metadata; a position without element <c<i>> carries ''.
C8_OneInsertPerRow == [](C8_RowValues) /\ [][C8_AllRows]_vars

\* An INSERT INTO with two values, one of them for a cell that the row does
\* not have, is written, and it is the last of its table.
C8_Witness ==
    /\ pc = "rows"
    /\ ir = Len(C8_LoadedRows) + 1
    /\ \E n \in LinesOf("INSERT INTO", is, it) :
          /\ Len(sqlout[n].parts) = 2
          /\ \E i \in 1..2 :
                /\ C8_Cells(C8_LoadedRows[sqlout[n].at[3]], i) = <<>>
                /\ sqlout[n].parts[i] = "''"

-----------------------------------------------------------------------------
(* C9 *)

\* b is X'<hex>', an even number of hexadecimal digits
C9_IsBlobLiteral(b) ==
    /\ Len(b) >= 3
    /\ (Len(b) - 3) % 2 = 0
    /\ MatchAt(b, 1, "X'")
    /\ CharAt(b, Len(b)) = "'"
    /\ \A k \in 3..(Len(b) - 1) : IsHexDigit(CharAt(b, k))

\* v is CAST(X'<hex>' AS TEXT)
C9_IsCastBlob(v) ==
    /\ Len(v) >= 17
    /\ MatchAt(v, 1, "CAST(")
    /\ MatchAt(v, Len(v) - 8, " AS TEXT)")
    /\ C9_IsBlobLiteral(SubSeq(v, 6, Len(v) - 9))

\* q is text with each quote doubled
RECURSIVE C9_IsDoubled(_, _)
C9_IsDoubled(q, text) ==
    IF text = "" THEN q = ""
    ELSE IF CharAt(text, 1) = "'"
         THEN /\ MatchAt(q, 1, "''")
              /\ C9_IsDoubled(SubSeq(q, 3, Len(q)), SubSeq(text, 2, Len(text)))
    ELSE /\ CharAt(q, 1) = CharAt(text, 1)
         /\ C9_IsDoubled(SubSeq(q, 2, Len(q)), SubSeq(text, 2, Len(text)))

\* v is text in single quotes with the quotes of text doubled
C9_IsQuoted(v, text) ==
    /\ Len(v) >= 2
    /\ CharAt(v, 1) = "'"
    /\ CharAt(v, Len(v)) = "'"
    /\ C9_IsDoubled(SubSeq(v, 2, Len(v) - 1), text)

\* The bytes, in hexadecimal digits, of the texts with a SIARD escape:
\* a \ b is a, backslash, b; the escape cut short after \u00 is the
\* byte 0
C9_Decoded == ("a\\u005cb" :> "615c62") @@ ("x\\u00" :> "7800")

\* v is the literal of the element el (missing: there is no element) for
\* the affinity and textify, by the first rule that applies
C9_Formatted(missing, el, affinity, textify, v) ==
    IF missing THEN v = "''"
    ELSE IF el.file # ""
         THEN IF affinity = "TEXT" \/ textify
              THEN C9_IsCastBlob(v)
              ELSE C9_IsBlobLiteral(v)
    ELSE IF affinity \in {"INTEGER", "REAL", "NUMERIC"} THEN v = el.text
    ELSE IF ~Contains(el.text, "\\u00") THEN C9_IsQuoted(v, el.text)
    ELSE /\ el.text \in DOMAIN C9_Decoded
         /\ v = "CAST(X'" \o C9_Decoded[el.text] \o "' AS TEXT)"

\* The column i of the table being read has a distinct type
C9_IsDistinct(i) ==
    /\ C.siard_coltype_v[i].typeSchema # ""
    /\ get_typenode(DataType_Table, C.siard_coltype_v[i].typeSchema,
                    getTypeOrTypeName(C.siard_coltype_v[i])).category = "distinct"

-----------------------------------------------------------------------------
(* C10 *)

\* C10: the blob literal of a cell whose file attribute names no member of
\* the archive is X'', and the INSERT INTO of its row has all its values.
C10_UnresolvedLobIsEmpty ==
    pc = "rows" =>
       \A n \in LinesOf("INSERT INTO", is, it) :
          /\ Len(sqlout[n].parts) = Len(M.root.schemas[is].tables[it].columns)
          /\ \A i \in 1..Len(sqlout[n].parts) :
                LET cells == C8_Cells(C8_LoadedRows[sqlout[n].at[3]], i) IN
                ( /\ cells # <<>>
                  /\ cells[1].file # ""
                  /\ ~C7_ArchiveHas(cells[1].file) )
                => sqlout[n].parts[i] \in {"X''", "CAST(X'' AS TEXT)"}
-----------------------------------------------------------------------------
(* C11 *)

\* The tag of the nested cell that a <field> of this name describes
C11_TagOfField == ("x[1]" :> "a1") @@ ("b" :> "u1")

\* The lobFolder that the metadata of the column col declares for the nested
\* cell tag: "" when there is no field for it
C11_FieldFolder(col, tag) ==
    LET ks == { k \in 1..Len(col.fields) :
                  /\ col.fields[k].name \in DOMAIN C11_TagOfField
                  /\ C11_TagOfField[col.fields[k].name] = tag }
    IN  IF ks = {} THEN "" ELSE col.fields[CHOOSE k \in ks : TRUE].lobFolder

\* The path of the LOB file named by a cell of the column col (tag = "": the
\* cell of the column itself): the file attribute below the folder
\* accumulated from the archive, the column and the field, below the archive
C11_LobPath(col, tag, file) ==
    FolderBelow(
       FolderBelow(M.siardURI,
          FolderBelow(FolderBelow(M.root.lobFolder, col.lobFolder),
                      IF tag = "" THEN "" ELSE C11_FieldFolder(col, tag))),
       file)

\* A file is at path, in the file system or as a member of the archive
C11_Has(path) ==
    \/ path \in DOMAIN files
    \/ /\ M.siardURI \in DOMAIN files
       /\ files[M.siardURI].k = "zip"
       /\ \E m \in DOMAIN files[M.siardURI].v : path = M.siardURI \o "/" \o m

\* The blob literal of the bytes of the file at path
C11_Literal(path) ==
    IF path \in DOMAIN files
    THEN "X'" \o HexOf(files[path].v) \o "'"
    ELSE "X'" \o HexOf(files[M.siardURI].v[CHOOSE m \in DOMAIN files[M.siardURI].v :
                                              path = M.siardURI \o "/" \o m].v) \o "'"

\* C11: the value of a cell with a file attribute, the cell of a column or
\* a cell nested in it, holds the bytes of the file that the attribute names
\* below the lobFolder accumulated from the archive, the column and the
\* enclosing field, and below the archive when there is no such folder.
C11_LobFolderApplies ==
    pc = "rows" =>
       \A n \in LinesOf("INSERT INTO", is, it) :
          \A i \in 1..Len(sqlout[n].parts) :
             LET col   == M.root.schemas[is].tables[it].columns[i]
                 cells == C8_Cells(C8_LoadedRows[sqlout[n].at[3]], i)
             IN  cells # <<>> =>
                 /\ ( /\ cells[1].file # ""
                      /\ C11_Has(C11_LobPath(col, "", cells[1].file)) )
                    => Contains(sqlout[n].parts[i],
                                C11_Literal(C11_LobPath(col, "", cells[1].file)))
                 /\ \A k \in 1..Len(cells[1].kids) :
                       LET kid == cells[1].kids[k] IN
                       ( /\ kid.file # ""
                         /\ C11_Has(C11_LobPath(col, kid.tag, kid.file)) )
                       => Contains(sqlout[n].parts[i],
                                   C11_Literal(C11_LobPath(col, kid.tag, kid.file)))
-----------------------------------------------------------------------------
(* C12 *)

\* The value of a hexadecimal digit of either case, -1 for another character
C12_HexValue(c) ==
    IF c # "" /\ \E k \in 1..16 : CharAt("0123456789abcdef", k) = c
    THEN (CHOOSE k \in 1..16 : CharAt("0123456789abcdef", k) = c) - 1
    ELSE IF c # "" /\ \E k \in 11..16 : CharAt("0123456789ABCDEF", k) = c
    THEN (CHOOSE k \in 11..16 : CharAt("0123456789ABCDEF", k) = c) - 1
    ELSE -1

\* The bytes of s from position i on, each \u00HH with two hexadecimal
\* digits HH replaced by the byte 0xHH and every other character copied
RECURSIVE C12_DecodeFrom(_, _)
C12_DecodeFrom(s, i) ==
    IF i > Len(s) THEN <<>>
    ELSE IF /\ MatchAt(s, i, "\\u00")
            /\ C12_HexValue(CharAt(s, i + 4)) >= 0
            /\ C12_HexValue(CharAt(s, i + 5)) >= 0
         THEN <<16 * C12_HexValue(CharAt(s, i + 4)) + C12_HexValue(CharAt(s, i + 5))>>
                 \o C12_DecodeFrom(s, i + 6)
    ELSE <<Ord(CharAt(s, i))>> \o C12_DecodeFrom(s, i + 1)

\* C12: siard_decode replaces each \u00HH, HH two hexadecimal digits of
\* either case, by the byte 0xHH and copies every other character in order;
\* the bytes are never more than the characters of the text.
C12_DecodesEscapesOnly ==
    util.f = "siard_decode" =>
       /\ util.ret = C12_DecodeFrom(util.arg, 1)
       /\ Len(util.ret) <= Len(util.arg)

\* Every \u00 of s is followed by two hexadecimal digits
C12_WellFormed(s) ==
    \A i \in 1..Len(s) :
        MatchAt(s, i, "\\u00") =>
            /\ C12_HexValue(CharAt(s, i + 4)) >= 0
            /\ C12_HexValue(CharAt(s, i + 5)) >= 0

\* C12: for a text in which every \u00 is followed by two hexadecimal
\* digits, siard_decode replaces each \u00HH by the byte 0xHH and copies
\* every other character in order; the bytes are never more than the
\* characters of the text.
C12_DecodesWellFormed ==
    (util.f = "siard_decode" /\ C12_WellFormed(util.arg)) =>
       /\ util.ret = C12_DecodeFrom(util.arg, 1)
       /\ Len(util.ret) <= Len(util.arg)

\* A\u0000B was decoded to 41 00 42
C12_Witness ==
    /\ util.f = "siard_decode"
    /\ util.arg = "A\\u0000B"
    /\ util.ret = <<65, 0, 66>>

-----------------------------------------------------------------------------
(* C13 *)

\* The number of single quotes of s
C13_Quotes(s) == Cardinality({i \in 1..Len(s) : CharAt(s, i) = "'"})

\* What a reader of SQL makes of the inside of a quoted text from position
\* i on: two quotes are one quote, another character is itself; a quote
\* that stands alone ends the text, what follows it is kept after a mark
RECURSIVE C13_Undouble(_, _)
C13_Undouble(q, i) ==
    IF i > Len(q) THEN ""
    ELSE IF MatchAt(q, i, "''") THEN "'" \o C13_Undouble(q, i + 2)
    ELSE IF CharAt(q, i) = "'" THEN "<end>" \o C13_Undouble(q, i + 1)
    ELSE CharAt(q, i) \o C13_Undouble(q, i + 1)

\* The text a quoted text stands for: the wrapper removed, the doubling undone
C13_Unquote(q) ==
    IF Len(q) >= 2 /\ CharAt(q, 1) = "'" /\ CharAt(q, Len(q)) = "'"
    THEN C13_Undouble(SubSeq(q, 2, Len(q) - 1), 1)
    ELSE "<unquoted>"

\* C13: enclose_sqlite_single_quote(s) is s with every single quote
\* doubled, between one leading and one trailing single quote; undoing the
\* doubling and removing the wrapper gives back s.
C13_QuoteRoundTrip ==
    util.f = "enclose_sqlite_single_quote" =>
       /\ Len(util.ret) = Len(util.arg) + C13_Quotes(util.arg) + 2
       /\ C13_Quotes(util.ret) = 2 * C13_Quotes(util.arg) + 2
       /\ C13_Unquote(util.ret) = util.arg

\* A text with a quote at its start, one inside and two in a row was quoted
C13_Witness ==
    /\ util.f = "enclose_sqlite_single_quote"
    /\ util.arg = "'a''b"
    /\ util.ret = "'''a''''b'"

-----------------------------------------------------------------------------
(* C14 *)

\* The functions that write a blob literal
C14_Encoders ==
    {"string_to_blob_literal", "char_array_to_blob_literal", "char_array_to_blob_literal_append",
     "file_to_blob_literal", "file_to_blob_literal_append"}

\* The value of a lowercase hexadecimal digit, -1 for another character
C14_Digit(c) ==
    IF c # "" /\ \E k \in 1..16 : CharAt("0123456789abcdef", k) = c
    THEN (CHOOSE k \in 1..16 : CharAt("0123456789abcdef", k) = c) - 1
    ELSE -1

\* lit is X' and ' around lowercase hexadecimal digits in pairs
C14_IsLiteral(lit) ==
    /\ Len(lit) >= 3
    /\ Len(lit) % 2 = 1
    /\ MatchAt(lit, 1, "X'")
    /\ CharAt(lit, Len(lit)) = "'"
    /\ \A i \in 3..(Len(lit) - 1) : C14_Digit(CharAt(lit, i)) >= 0

\* The bytes a blob literal stands for
C14_Parse(lit) ==
    [i \in 1..((Len(lit) - 3) \div 2) |->
        16 * C14_Digit(CharAt(lit, 2 * i + 1)) + C14_Digit(CharAt(lit, 2 * i + 2))]

\* C14: every blob encoder, of memory and of files, the one that takes four
\* bytes at a time too, writes for the bytes b the text X' followed by two
\* lowercase hexadecimal digits per byte and a quote; parsing that literal
\* gives back b; for no bytes it is X''.
C14_BlobLiteralRoundTrip ==
    util.f \in C14_Encoders =>
       /\ C14_IsLiteral(util.ret)
       /\ Len(util.ret) = 2 * Len(util.arg) + 3
       /\ C14_Parse(util.ret) = util.arg
       /\ (util.arg = <<>> => util.ret = "X''")

\* A file of nine bytes went through a buffer of four bytes: two full
\* buffers and a last one with a single byte
C14_Witness ==
    /\ util.f = "file_to_blob_literal_append"
    /\ util.size = 4
    /\ util.arg = <<0, 9, 16, 127, 128, 171, 255, 10, 160>>
    /\ util.ret = "X'0009107f80abff0aa0'"

-----------------------------------------------------------------------------
(* C15 *)

\* The combination of the folder p of the enclosing element and the folder
\* d an element declares
C15_Combine(p, d) ==
    IF (d # "" /\ CharAt(d, 1) = "/") \/ p = "" THEN d
    ELSE IF d = "" THEN p
    ELSE p \o "/" \o d

\* The accumulated folder kept for a tree path; no entry is no folder
C15_Acc(info, path) == IF path \in DOMAIN info THEN info[path].acc_lobfolder ELSE ""

\* The name of a field in the tree paths
C15_Tag == ("x" :> "x") @@ ("x[1]" :> "a1") @@ ("x[2]" :> "a2") @@ ("b" :> "b") @@ ("c" :> "c") @@ ("g" :> "g")

\* Below the tree path parent, every field of fields and every field of
\* theirs has the combination of the accumulated folder of its parent and
\* its own folder
RECURSIVE C15_FieldsCombined(_, _, _)
C15_FieldsCombined(info, parent, fields) ==
    \A k \in 1..Len(fields) :
        /\ C15_Acc(info, parent \o "/" \o C15_Tag[fields[k].name])
              = C15_Combine(C15_Acc(info, parent), fields[k].lobFolder)
        /\ C15_FieldsCombined(info, parent \o "/" \o C15_Tag[fields[k].name], fields[k].fields)

\* C15: combine_lobfolders(parent, declared) is declared when declared is
\* absolute or parent is empty, parent when declared is empty, and parent,
\* "/" and declared otherwise; the accumulated folder of every node of the
\* field tree of a column is this combination of the accumulated folder of
\* its parent and its own declared folder.
C15_LobFolderComposition ==
    /\ util.f = "combine_lobfolders" => util.ret = C15_Combine(util.arg[1], util.arg[2])
    /\ util.f = "lobfolder_init" =>
          /\ C15_Acc(util.ret, "") = util.arg[1]
          /\ C15_FieldsCombined(util.ret, "", <<util.arg[2]>>)

\* Archive, column and field declare al, cl and fl, the field inside
\* declares the absolute /z
C15_Witness ==
    /\ util.f = "lobfolder_init"
    /\ util.arg[1] = "al"
    /\ "/x/a1/g" \in DOMAIN util.ret
    /\ util.ret["/x"].acc_lobfolder = "al/cl"
    /\ util.ret["/x/a1"].acc_lobfolder = "al/cl/fl"
    /\ util.ret["/x/a1/g"].acc_lobfolder = "/z"
    /\ "/x/b" \in DOMAIN util.ret

-----------------------------------------------------------------------------
(* C16 *)

\* The infix rrm looks for in the real path of what it is to remove
C16_Infix == "_s2s_tmp"

\* The directory path or something below it exists
C16_Exists(path) ==
    \/ path \in dirs
    \/ path \in DOMAIN files
    \/ \E p \in dirs \cup DOMAIN files : is_prefix(path \o "/", p)

\* IDA_siard2sql has returned after it made a temporary directory: the
\* directory is gone with everything below it exactly when its path holds
\* the infix
C16_WorkspaceGone ==
    (pc \in {"main_return", "exited"} /\ M.tmpdir # "") =>
        (~C16_Exists(M.tmpdir) <=> Contains(M.tmpdir, C16_Infix))

\* The step in which M is destructed removes no file and no directory whose
\* path is without the infix
C16_OnlyWorkspaceRemoved ==
    (pc # "main_return" /\ pc' = "main_return") =>
        \A p \in (DOMAIN files \ DOMAIN files') \cup (dirs \ dirs') : Contains(p, C16_Infix)

-----------------------------------------------------------------------------
(* C17 *)

\* The <column> i of the table being read, as metadata.xml declares it
C17_Column(i) == M.root.schemas[is].tables[it].columns[i]

\* The category of the type of a column: array, udt, distinct, or simple
C17_Category(col) ==
    IF col.cardinality > 0 THEN "array"
    ELSE IF col.typeName = "" THEN "simple"
    ELSE get_typenode(DataType_Table, col.typeSchema, col.typeName).category

\* The cell is empty: the row has no element for it, or an element without
\* text, children and file
C17_IsEmpty(cells) ==
    \/ cells = <<>>
    \/ cells[1].text = "" /\ cells[1].kids = <<>> /\ cells[1].file = ""

\* v is the call of a JSON function of SQLite
C17_IsJson(v) ==
    /\ MatchAt(v, 1, "json_array(") \/ MatchAt(v, 1, "json_object(")
    /\ CharAt(v, Len(v)) = ")"

\* C17: the cell of a complex type (array, udt, distinct) that is empty is
\* written as the empty string ''; one that is not empty is written as an
\* expression that makes JSON (for a distinct type, the literal of its base
\* type).
C17_EmptyComplexIsEmptyString ==
    pc = "rows" =>
       \A n \in LinesOf("INSERT INTO", is, it) :
          \A i \in 1..Len(sqlout[n].parts) :
             LET cells == C8_Cells(C8_LoadedRows[sqlout[n].at[3]], i)
                 cat   == C17_Category(C17_Column(i))
                 v     == sqlout[n].parts[i]
             IN  cat # "simple" =>
                    IF C17_IsEmpty(cells) THEN v = "''"
                    ELSE IF cat = "distinct" THEN v # "''"
                    ELSE C17_IsJson(v)

-----------------------------------------------------------------------------
(* C18 *)

\* v without its spaces and line ends from position i on
RECURSIVE C18_Strip(_, _)
C18_Strip(v, i) ==
    IF i > Len(v) THEN ""
    ELSE (IF CharAt(v, i) \in {" ", "\n"} THEN "" ELSE CharAt(v, i)) \o C18_Strip(v, i + 1)

\* The children of the element el that have the tag: the first of them, or
\* none
C18_Child(el, tag) ==
    IF \E k \in 1..Len(el.kids) : el.kids[k].tag = tag
    THEN <<el.kids[CHOOSE k \in 1..Len(el.kids) :
                      el.kids[k].tag = tag /\ \A j \in 1..(k - 1) : el.kids[j].tag # tag]>>
    ELSE <<>>

\* Neither the element el nor an element below it names a LOB file
RECURSIVE C18_NoFile(_)
C18_NoFile(el) == el.file = "" /\ \A k \in 1..Len(el.kids) : C18_NoFile(el.kids[k])

\* The places <<schema, type>> of the <type> elements that a use of a type
\* (a column, an attribute) names with its typeSchema and typeName
C18_Places(use) ==
    UNION { {<<i, k>> : k \in {k \in 1..Len(M.root.schemas[i].types) :
                                 M.root.schemas[i].types[k].name = use.typeName}} :
            i \in {i \in 1..Len(M.root.schemas) : M.root.schemas[i].name = use.typeSchema} }

\* The <type> a use of a type names, as metadata.xml declares it; a type
\* without category when no <type> has this name
C18_Type(use) ==
    IF C18_Places(use) = {}
    THEN [category |-> "", name |-> use.typeName, base |-> "",
          has_attributes |-> FALSE, attributes |-> <<>>]
    ELSE With(CHOOSE o \in C18_Places(use) : \A q \in C18_Places(use) : o[2] <= q[2],
              LAMBDA o : M.root.schemas[o[1]].types[o[2]])

\* The value of a cell (cells: its element, or none) for a declared use of
\* a type (a column, an attribute), spaces and line ends left out: '' for no
\* element; for an array json_array( and the values of the children a1 ..
\* a<cardinality> for the type of the elements; for a udt json_object( and
\* for each attribute its name in quotes and the value of the child
\* u<number of the attribute>; else the text, in quotes when the type is not
\* INTEGER
RECURSIVE C18_Value(_, _)
RECURSIVE C18_Items(_, _, _)
RECURSIVE C18_Pairs(_, _, _)
C18_Value(cells, use) ==
    IF cells = <<>> THEN "''"
    ELSE IF use.cardinality > 0
         THEN "json_array(" \o C18_Items(cells[1], use, 1) \o ")"
    ELSE IF use.typeName # "" /\ C18_Type(use).category = "udt"
         THEN "json_object(" \o C18_Pairs(cells[1], C18_Type(use).attributes, 1) \o ")"
    ELSE IF use.typeName # "" \/ use.type = "INTEGER" THEN cells[1].text
    ELSE "'" \o cells[1].text \o "'"

C18_Items(el, use, i) ==
    IF i > use.cardinality THEN ""
    ELSE C18_Value(C18_Child(el, "a" \o to_string(i)), [use EXCEPT !.cardinality = 0])
            \o (IF i < use.cardinality THEN "," ELSE "")
            \o C18_Items(el, use, i + 1)

C18_Pairs(el, attributes, k) ==
    IF k > Len(attributes) THEN ""
    ELSE "'" \o attributes[k].name \o "',"
            \o C18_Value(C18_Child(el, "u" \o to_string(k)), attributes[k])
            \o (IF k < Len(attributes) THEN "," ELSE "")
            \o C18_Pairs(el, attributes, k + 1)

\* C18: the cell of an array of the cardinality card is json_array(, then
\* card items separated by commas, item i being the value of the child
\* <a<i>> of the cell for the type of the elements ('' when there is no
\* such child), i = 1..card in this order, then ); spaces and line ends do
\* not count, and the cells that name LOB files are left aside.  Children
\* 1, 2, 3 of an INTEGER array of cardinality 3 give json_array(1, 2, 3).
C18_ArrayCell ==
    pc = "rows" =>
       \A n \in LinesOf("INSERT INTO", is, it) :
          \A i \in 1..Len(sqlout[n].parts) :
             LET cells == C8_Cells(C8_LoadedRows[sqlout[n].at[3]], i) IN
             (C17_Column(i).cardinality > 0 /\ cells # <<>> /\ C18_NoFile(cells[1])) =>
                 C18_Strip(sqlout[n].parts[i], 1) = C18_Value(cells, C17_Column(i))

-----------------------------------------------------------------------------
(* C19 *)

\* C19: the cell of a udt is json_object(, then for each attribute of the
\* type, in the declared order, its name in quotes and a value separated by
\* commas, the value of attribute k being the value of the child <u<k>> of
\* the cell for the type of the attribute (an attribute that is an array:
\* the array of C18), then ); spaces and line ends do not count, and the
\* cells that name LOB files are left aside.  The type
\* P with x INTEGER and ys INTEGER[2] and the cell
\* <u1>7</u1><u2><a1>8</a1><a2>9</a2></u2> give
\* json_object('x', 7, 'ys', json_array(8, 9)).
C19_UdtCell ==
    pc = "rows" =>
       \A n \in LinesOf("INSERT INTO", is, it) :
          \A i \in 1..Len(sqlout[n].parts) :
             LET cells == C8_Cells(C8_LoadedRows[sqlout[n].at[3]], i) IN
             (C17_Column(i).cardinality = 0 /\ C17_Category(C17_Column(i)) = "udt" /\ cells # <<>> /\ C18_NoFile(cells[1])) =>
                 C18_Strip(sqlout[n].parts[i], 1) = C18_Value(cells, C17_Column(i))

-----------------------------------------------------------------------------
(* C20 *)

\* C20: the Data Type Table belongs to one run: whenever a run starts, and
\* until it registers the types of its archive, the table is empty and its
\* counters are zero, so that no type of an earlier run of the process is
\* seen by a later one and the same archive gets the same names for its
\* arrays every time.
C20_TableIsRunScoped ==
    pc \in {"IDA_siard2sql", "load", "tree_to_sql"} =>
        /\ DataType_Table.datatype_dict = <<>>
        /\ DataType_Table.datatype_count = 0
        /\ DataType_Table.datatype_array_count = 0
-----------------------------------------------------------------------------
(* C21 *)

\* The positions of the CREATE UNIQUE INDEX statements of the output
C21_Indexes == {n \in 1..Len(sqlout) : sqlout[n].kind = "CREATE UNIQUE INDEX"}

\* The candidate key a CREATE UNIQUE INDEX statement was written for
C21_Key(n) ==
    M.root.schemas[sqlout[n].at[1]].tables[sqlout[n].at[2]].candidateKeys[sqlout[n].at[3]]

\* The tables <<schema, table>> of the archive
C21_Tables ==
    UNION { {<<i, j>> : j \in 1..Len(M.root.schemas[i].tables)} :
            i \in 1..Len(M.root.schemas) }

\* C21: the k-th CREATE UNIQUE INDEX statement of an output, counted from 0
\* over all tables and schemas, is named unique_idx<k>_<name> with the name of
\* its candidate key, so no two of them have the same index name; the counter
\* is the number of the statements written; when the run is over a table
\* that has a CREATE TABLE has one such statement for each of its candidate
\* keys and a table without a CREATE TABLE has none.
C21_IndexCounter ==
    /\ iuk = Cardinality(C21_Indexes)
    /\ \A n \in C21_Indexes :
          sqlout[n].parts[1]
             = "unique_idx" \o to_string(Cardinality({m \in C21_Indexes : m < n}))
                  \o "_" \o C21_Key(n).name
    /\ \A n, m \in C21_Indexes : sqlout[n].parts[1] = sqlout[m].parts[1] => n = m
    /\ OutputComplete =>
          \A o \in C21_Tables :
             \A ick \in 1..Len(M.root.schemas[o[1]].tables[o[2]].candidateKeys) :
                Cardinality({n \in LinesOf("CREATE UNIQUE INDEX", o[1], o[2]) :
                                sqlout[n].at[3] = ick})
                   = IF LinesOf("CREATE TABLE", o[1], o[2]) # {} THEN 1 ELSE 0

\* A run is over that skipped a table and wrote the indexes of tables of two
\* schemas, the one of the later schema with a counter above 0
C21_Witness ==
    /\ OutputComplete
    /\ rep_tables # {}
    /\ \E n, m \in C21_Indexes :
          /\ sqlout[n].at[1] < sqlout[m].at[1]
          /\ \E o \in C21_Tables :
                /\ sqlout[n].at[1] <= o[1] /\ o[1] <= sqlout[m].at[1]
                /\ LinesOf("CREATE TABLE", o[1], o[2]) = {}
                /\ M.root.schemas[o[1]].tables[o[2]].candidateKeys # <<>>
          /\ sqlout[m].parts[1] = "unique_idx1_" \o C21_Key(m).name

-----------------------------------------------------------------------------
(* C22 *)

\* The category the rules give: the first that matches of cardinality > 0,
\* type not empty, (typeSchema, typeName) other than ("", ""), base not empty
C22_FirstMatch(a) ==
    IF a.cardinality > 0 THEN "array"
    ELSE IF a.type # "" THEN "simple"
    ELSE IF <<a.typeSchema, a.typeName>> # <<"", "">> THEN "udt"
    ELSE IF a.base # "" THEN "distinct"
    ELSE "unknown"

\* C22: get_extended_category returns the first matching of: cardinality > 0
\* gives array; else type not empty gives simple; else (typeSchema, typeName)
\* other than (empty, empty) gives udt; else base not empty gives distinct;
\* else unknown, for every combination of empty and non-empty fields.
C22_ExtendedCategory ==
    util.f = "get_extended_category" => util.ret = C22_FirstMatch(util.arg)

\* The same for the attributes that have both or none of typeSchema and
\* typeName
C22_ExtendedCategoryOfPairs ==
    (util.f = "get_extended_category" /\ ((util.arg.typeSchema = "") <=> (util.arg.typeName = "")))
       => util.ret = C22_FirstMatch(util.arg)

-----------------------------------------------------------------------------
(* C23 *)

\* The keys of the array nodes of the table
C23_ArrayKeys ==
    {k \in DOMAIN DataType_Table.datatype_dict :
        DataType_Table.datatype_dict[k].category = "array"}

\* The names add_array_data_type returned so far are as many as its calls
C23_NamesDiffer ==
    Cardinality({k[2] : k \in C23_ArrayKeys}) = DataType_Table.datatype_array_count

\* A call add_array_data_type(schema, e) returns ARRAY<cardinality>_<name of
\* e>_<k>, k being the number of the arrays registered before, a name no
\* entry of the table has; the table has then, under the schema and this
\* name, an array node with one attribute that has the element type and the
\* cardinality of e; the entries it had are as they were
C23_CallRegisters ==
    util'.f = "add_array_data_type" /\ DataType_Table' # DataType_Table =>
       LET schema == util'.arg[1]
           e == util'.arg[2]
           k == DataType_Table.datatype_array_count
           name == "ARRAY" \o to_string(e.cardinality) \o "_" \o e.name \o "_" \o to_string(k)
           dict == DataType_Table.datatype_dict
       IN  /\ util'.ret = name
           /\ \A key \in DOMAIN dict : key[2] # name
           /\ DataType_Table'.datatype_array_count = k + 1
           /\ DOMAIN DataType_Table'.datatype_dict = DOMAIN dict \cup {<<schema, name>>}
           /\ \A key \in DOMAIN dict : DataType_Table'.datatype_dict[key] = dict[key]
           /\ LET node == DataType_Table'.datatype_dict[<<schema, name>>] IN
              /\ node.schema = schema /\ node.name = name /\ node.category = "array"
              /\ Len(node.attribute_list) = 1
              /\ node.attribute_list[1].type = e.type
              /\ node.attribute_list[1].typeSchema = e.typeSchema
              /\ node.attribute_list[1].typeName = e.typeName
              /\ node.attribute_list[1].cardinality = e.cardinality

\* C23: each call of add_array_data_type(schema, subname, element type,
\* cardinality) inserts under (schema, name) an array node with one attribute
\* that has the element type and the cardinality, and returns name =
\* ARRAY<cardinality>_<subname>_<k>, k being the number of the arrays
\* registered before it, over all schemas; no two calls return the same name.
C23_ArrayNames == [](C23_NamesDiffer) /\ [][C23_CallRegisters]_vars

\* Three arrays of the same column name and cardinality were registered, in
\* two schemas, the last one as number 2
C23_Witness ==
    /\ util.f = "add_array_data_type"
    /\ util.ret = "ARRAY2_x_2"
    /\ {<<"s1", "ARRAY2_x_0">>, <<"s2", "ARRAY2_x_1">>, <<"s1", "ARRAY2_x_2">>} \subseteq C23_ArrayKeys

-----------------------------------------------------------------------------
(* C24 *)

\* The first pass of tree_to_sql over the schemas is done
C24_PrePassDone == pc \in {"schema", "table", "content", "rows", "end_table"}

\* The <type> elements <<schema, type>> of the archive that have a name and
\* the category distinct or udt
C24_Declared ==
    UNION { {<<i, k>> : k \in {k \in 1..Len(M.root.schemas[i].types) :
                                 /\ M.root.schemas[i].types[k].name # ""
                                 /\ M.root.schemas[i].types[k].category \in {"distinct", "udt"}}} :
            i \in 1..Len(M.root.schemas) }

\* The table has an entry for the type k of schema i
C24_Registered(i, k) ==
    <<M.root.schemas[i].name, M.root.schemas[i].types[k].name>>
        \in DOMAIN DataType_Table.datatype_dict

\* C24: when the first pass is done, and so before the first CREATE TABLE is
\* written, the Data-Type Table has an entry for every <type> with a name
\* and the category distinct or udt of every schema of the archive, the
\* later schemas and the schemas the filter excludes included.
C24_AllTypesRegistered ==
    C24_PrePassDone => \A o \in C24_Declared : C24_Registered(o[1], o[2])

\* The same for the types that are distinct or have an <attributes> element
C24_TypesWithAttributesRegistered ==
    C24_PrePassDone =>
       \A o \in C24_Declared :
          (\/ M.root.schemas[o[1]].types[o[2]].category = "distinct"
           \/ M.root.schemas[o[1]].types[o[2]].has_attributes)
             => C24_Registered(o[1], o[2])

-----------------------------------------------------------------------------
(* C25 *)

\* An element below el, el not counted, has the tag
RECURSIVE C25_Below(_, _)
C25_Below(el, tag) ==
    \E k \in 1..Len(el.kids) : el.kids[k].tag = tag \/ C25_Below(el.kids[k], tag)

\* The tags of the children the formatter looks up in the cell of a column:
\* a1 .. a<cardinality> for an array, u1 .. u<number of attributes> for a udt
C25_Tags(col) ==
    IF col.cardinality > 0 THEN {"a" \o to_string(i) : i \in 1..col.cardinality}
    ELSE IF C17_Category(col) = "udt"
         THEN {"u" \o to_string(k) : k \in 1..Len(C18_Type(col).attributes)}
    ELSE {}

\* C25: the array and udt formatters take item i / attribute k from the
\* child <a<i>> / <u<k>> of the element they format; a cell that has no such
\* child for some position, an element deeper in the cell having this tag,
\* has '' at this position and the values of its children at the others
\* (spaces and line ends do not count, cells that name LOB files are left
\* aside).
C25_ChildLookup ==
    pc = "rows" =>
       \A n \in LinesOf("INSERT INTO", is, it) :
          \A i \in 1..Len(sqlout[n].parts) :
             LET cells == C8_Cells(C8_LoadedRows[sqlout[n].at[3]], i) IN
             (/\ cells # <<>>
              /\ C18_NoFile(cells[1])
              /\ \E tag \in C25_Tags(C17_Column(i)) :
                    C18_Child(cells[1], tag) = <<>> /\ C25_Below(cells[1], tag))
                 => C18_Strip(sqlout[n].parts[i], 1) = C18_Value(cells, C17_Column(i))

\* The same for the cells in which no element deeper than a child has a tag
\* that is looked up and missing among the children
C25_ChildLookupNoDeeperTag ==
    pc = "rows" =>
       \A n \in LinesOf("INSERT INTO", is, it) :
          \A i \in 1..Len(sqlout[n].parts) :
             LET cells == C8_Cells(C8_LoadedRows[sqlout[n].at[3]], i) IN
             (/\ cells # <<>>
              /\ C18_NoFile(cells[1])
              /\ Len(cells[1].kids) > 0
              /\ \A k \in 1..Len(cells[1].kids) : cells[1].kids[k].kids = <<>>
              /\ \E tag \in C25_Tags(C17_Column(i)) : C18_Child(cells[1], tag) = <<>>)
                 => C18_Strip(sqlout[n].parts[i], 1) = C18_Value(cells, C17_Column(i))

-----------------------------------------------------------------------------
(* C26 *)

\* The big-step value of the call
C26_Value ==
    append_complex_data_type_content(util.arg[1], util.arg[2], util.arg[3], 0, "",
        <<>>, "", [files |-> <<>>, tmpdir |-> "", typecache |-> <<>>]).s

\* A call that returned from a cell of little depth appended the text that
\* append_complex_data_type_content gives as a whole
C26_SameText ==
    (/\ util.f = "append_complex_data_type_content"
     /\ util.returned
     /\ util.depth <= 4)
       => util.s = C26_Value

\* C26: the complex formatter returns for every cell and every Data-Type
\* Table, the tables with types that reach themselves (udt, array, distinct)
\* included, and its calls are nested at most 64 levels deep.
C26_FormatterTerminates ==
    util.f = "append_complex_data_type_content" =>
       /\ ~util.signaled
       /\ Len(util.stack) <= 64
       /\ util.depth + 1 <= 64

\* No distinct type of the table has a base that is a type of the schema
\* without name
C26_NoDistinctChain ==
    \A k \in DOMAIN DataType_Table.datatype_dict :
       DataType_Table.datatype_dict[k].category = "distinct"
          => <<"", DataType_Table.datatype_dict[k].attribute_list[1].base>>
                \notin DOMAIN DataType_Table.datatype_dict

\* Without such a distinct type the stack is not used up: the calls are
\* nested no deeper than the elements of the cell, and one more
C26_DepthWithinCell ==
    (util.f = "append_complex_data_type_content" /\ C26_NoDistinctChain)
       => ~util.signaled /\ util.depth <= MaxNesting + 2


(***************************************************************************)
(* The directory stack alone: unzipURI and IDA_SIARDmetadata::unzip called  *)
(* in any order on one object, over archives that are good, damaged or      *)
(* missing, with each pushd and popd a step of its own.                      *)
(***************************************************************************)

\* A slip of popd: the directory is changed and the entry is left on the stack.
popd_keep(p, ds) ==
    With(p.dirstack[Len(p.dirstack)], LAMBDA topcwd :
        [err      |-> IF topcwd \in ds THEN 0 ELSE -1,
         cwd      |-> IF topcwd \in ds THEN topcwd ELSE p.cwd,
         dirstack |-> p.dirstack])

\* popd, lines 502-507, in the process state p = [cwd, dirstack] with the
\* directories ds: the value returned and the state it leaves
popd(p, ds) ==
    With(p.dirstack[Len(p.dirstack)], LAMBDA topcwd :
        [err      |-> IF topcwd \in ds THEN 0 ELSE -1,
         cwd      |-> IF topcwd \in ds THEN topcwd ELSE p.cwd,
         dirstack |-> SubSeq(p.dirstack, 1, Len(p.dirstack) - 1)])

\* pushd(dir), lines 491-500: getcwd fails in a directory that is gone, chdir
\* fails when dir is no directory, and only a chdir that succeeded pushes
pushd(p, dir, ds) ==
    IF p.cwd \notin ds \/ dir = "" \/ realpath_nocheck(dir, p.cwd) \notin ds
    THEN [err |-> -1, cwd |-> p.cwd, dirstack |-> p.dirstack]
    ELSE [err |-> 0, cwd |-> realpath_nocheck(dir, p.cwd),
          dirstack |-> Append(p.dirstack, p.cwd)]

\* The members of the archive of this section: the metadata, a table and an
\* archive inside the archive
DirPayload ==
    ("header/metadata.xml" :> XmlFile(NoMetadata.root))
    @@ ("content/schema0/table0/table0.xml" :> BytesFile(<<60>>))
    @@ ("in.zip" :> ZipFile("x.txt" :> BytesFile(<<1>>)))

DirKinds == {"good", "nometa", "corrupt", "dir", "missing"}

\* The files of the file system for each kind of input
DirFiles(kind) ==
    CASE kind = "good" -> (SiardFile :> ZipFile(DirPayload))
      [] kind = "nometa" ->
            (SiardFile :> ZipFile("in.zip" :> ZipFile("x.txt" :> BytesFile(<<1>>))))
      [] kind = "corrupt" -> (SiardFile :> BytesFile(<<0>>))
      [] kind = "dir" -> Rooted(SiardDir, DirPayload)
      [] OTHER -> <<>>

\* The paths unzipURI is called with
DirPaths ==
    {SiardFile \o "/header/metadata.xml", SiardFile \o "/in.zip/x.txt",
     SiardFile \o "/none.xml", SiardFile, "/d/plain.txt",
     SiardDir \o "/in.zip/x.txt"}

\* A directory that does not exist
NoDir == "/gone"

\* The state after IDA_SIARDmetadata M(siard_uri), lines 2203-2218
InitDir ==
    /\ argv = CommandLine(SiardFile, "")
    /\ cwd = Cwd
    /\ dirstack = <<>>
    /\ minizip = NoZip
    /\ \E kind \in DirKinds :
          /\ files = DirFiles(kind)
          /\ mkdtemp_ok \in BOOLEAN
          /\ dirs = (IF kind = "dir" THEN BaseDirs \cup {SiardDir} ELSE BaseDirs)
                       \cup ({IF mkdtemp_ok THEN TmpDirOfRun ELSE ""} \ {""})
          /\ \E uri \in {IF kind = "dir" THEN SiardDir ELSE SiardFile} :
             \E realsiard \in {IF uri \in DOMAIN files \/ uri \in dirs THEN uri ELSE ""} :
                M = [siardURI |-> realsiard,
                     tmpdir |-> IF mkdtemp_ok THEN TmpDirOfRun ELSE "",
                     unzipmode |-> IF ~mkdtemp_ok \/ realsiard \in dirs
                                   THEN "SIARD_FULL_UNZIP"
                                   ELSE "SIARD_FILE_BY_FILE_UNZIP",
                     loaded |-> FALSE,
                     root |-> NoMetadata.root]
    /\ sink = "ok"
    /\ typecache = <<>>
    /\ tm_arg = ""
    /\ tm_ret = "none"
    /\ tm_hit = FALSE
    /\ util = NoCall
    /\ pc = "idle"
    /\ calls = <<>>
    /\ is = 1
    /\ it = 1
    /\ seen_tables = {}
    /\ rep_tables = {}
    /\ table_first_schema = <<>>
    /\ iuk = 0
    /\ DataType_Table = EmptyDataTypeTable
    /\ C = NoContent
    /\ ir = 1
    /\ sqlout = <<>>
    /\ ret = 1
    /\ exit_status = -1

\* No operation is inside its pushd
DirIdle == IF util.f = "none" THEN TRUE ELSE util.at = "returned"

\* The record of a call that returned r without a pushd of its own
DirReturned(f, arg, r) ==
    [f |-> f, arg |-> arg, ret |-> r, at |-> "returned", pushed |-> FALSE,
     cwd0 |-> cwd, stack0 |-> dirstack, td |-> "", zips |-> <<>>]

\* unzipURI(zippath, tmpdir), lines 828-872: up to the pushd
unzipURI_call(zippath, tmpdir) ==
    /\ DirIdle
    /\ IF ~strcasestr(zippath, ".zip") /\ ~strcasestr(zippath, ".siard")
       THEN /\ util' = DirReturned("unzipURI", <<zippath, tmpdir>>, zippath)
            /\ UNCHANGED <<cwd, dirstack, dirs>>
       ELSE \E zips \in {zip_chain(get_canonical_file_name(zippath))} :
            IF Len(zips) <= 1
            THEN /\ util' = DirReturned("unzipURI", <<zippath, tmpdir>>, zippath)
                 /\ UNCHANGED <<cwd, dirstack, dirs>>
            ELSE \E td \in {IF tmpdir = "" THEN create_temp_dir(TmpDirDefault) ELSE tmpdir} :
                 \E ds \in {IF tmpdir = "" /\ td # "" THEN dirs \cup {td} ELSE dirs} :
                 \E p \in {pushd([cwd |-> cwd, dirstack |-> dirstack], td, ds)} :
                    /\ dirs' = ds
                    /\ cwd' = p.cwd
                    /\ dirstack' = p.dirstack
                    /\ util' = IF p.err # 0
                               THEN DirReturned("unzipURI", <<zippath, tmpdir>>, "")
                               ELSE [f |-> "unzipURI", arg |-> <<zippath, tmpdir>>,
                                     ret |-> "", at |-> "inside", pushed |-> TRUE,
                                     cwd0 |-> cwd, stack0 |-> dirstack,
                                     td |-> td, zips |-> zips]
    /\ UNCHANGED <<typeVars, argv, minizip, files, mkdtemp_ok, sink, runVars>>

\* unzipURI, lines 874-904: the extractions, the popd and the access
unzipURI_return ==
    /\ util.f = "unzipURI"
    /\ util.at = "inside"
    /\ \E r \in {unzip_loop(util.zips, 1, files, util.td)} :
       \E p \in {popd([cwd |-> cwd, dirstack |-> dirstack], dirs)} :
          /\ files' = r.files
          /\ cwd' = p.cwd
          /\ dirstack' = p.dirstack
          /\ util' = [util EXCEPT
                 !.at = "returned",
                 !.ret = IF Readable(r.files, p.cwd, r.zips[Len(r.zips)])
                         THEN r.zips[Len(r.zips)] ELSE ""]
    /\ UNCHANGED <<typeVars, argv, minizip, dirs, mkdtemp_ok, sink, runVars>>

\* IDA_unzip_siard_full and IDA_unzip_siard_metadata of the archive zp in the
\* working directory wd: the error and the files left
unzip_siard(fs, wd, zp, onlyheader) ==
    IF zp = "" \/ zp \notin DOMAIN fs \/ fs[zp].k # "zip"
    THEN [ziperr |-> 1, files |-> fs]
    ELSE IF ~onlyheader
         THEN [ziperr |-> 0, files |-> Rooted(wd, fs[zp].v) @@ fs]
         ELSE IF "header/metadata.xml" \in DOMAIN fs[zp].v
              THEN [ziperr |-> 0,
                    files |-> Put(fs, wd \o "/header/metadata.xml",
                                  fs[zp].v["header/metadata.xml"])]
              ELSE [ziperr |-> 1, files |-> fs]

\* M.unzip(onlyheader), lines 2267-2277: up to the pushd
unzip_call(onlyheader) ==
    /\ DirIdle
    /\ IF is_directory(M.siardURI, cwd)
       THEN /\ util' = DirReturned("unzip", <<onlyheader>>, 0)
            /\ UNCHANGED <<cwd, dirstack>>
       ELSE \E p \in {pushd([cwd |-> cwd, dirstack |-> dirstack], M.tmpdir, dirs)} :
               /\ cwd' = p.cwd
               /\ dirstack' = p.dirstack
               /\ util' = IF p.err # 0
                          THEN DirReturned("unzip", <<onlyheader>>, -1)
                          ELSE [f |-> "unzip", arg |-> <<onlyheader>>,
                                ret |-> 0, at |-> "inside", pushed |-> TRUE,
                                cwd0 |-> cwd, stack0 |-> dirstack,
                                td |-> M.tmpdir, zips |-> <<>>]
    /\ UNCHANGED <<typeVars, argv, minizip, files, dirs, mkdtemp_ok, sink, runVars>>

\* M.unzip, lines 2279-2317: the extraction and the popd of either outcome
unzip_return ==
    /\ util.f = "unzip"
    /\ util.at = "inside"
    /\ \E r \in {unzip_siard(files, cwd, M.siardURI, util.arg[1])} :
       \E p \in {popd([cwd |-> cwd, dirstack |-> dirstack], dirs)} :
          /\ files' = r.files
          /\ cwd' = p.cwd
          /\ dirstack' = p.dirstack
          /\ IF r.ziperr # 0 \/ p.err # 0
             THEN /\ util' = [util EXCEPT !.at = "returned", !.ret = -1]
                  /\ UNCHANGED M
             ELSE /\ util' = [util EXCEPT !.at = "returned", !.ret = 0]
                  /\ M' = [M EXCEPT !.unzipmode = "SIARD_FULL_UNZIP",
                                    !.siardURI = M.tmpdir]
    /\ UNCHANGED <<typeVars, argv, minizip, dirs, mkdtemp_ok, sink, pc, calls, is, it,
                   seen_tables, rep_tables, table_first_schema, iuk,
                   DataType_Table, C, ir, sqlout, ret, exit_status>>

NextDir ==
    \/ \E zippath \in DirPaths : \E tmpdir \in {"", M.tmpdir, NoDir} :
          unzipURI_call(zippath, tmpdir)
    \/ unzipURI_return
    \/ \E onlyheader \in BOOLEAN : unzip_call(onlyheader)
    \/ unzip_return

SpecDir == InitDir /\ [][NextDir]_vars

\* C27: every pushd that succeeded in unzipURI or unzip is undone by one popd
\* before the operation returns, whichever way it returns: whenever one of
\* them has returned, the directory stack and the working directory are the
\* ones the operation started with, and while it is inside its pushd the
\* stack is one entry deeper.
C27_PushdPopdPaired ==
    /\ util.f \in {"unzipURI", "unzip"} /\ util.at = "returned"
          => dirstack = util.stack0 /\ cwd = util.cwd0
    /\ util.f \in {"unzipURI", "unzip"} /\ util.at = "inside"
          => /\ Len(dirstack) = Len(util.stack0) + 1
             /\ dirstack[Len(dirstack)] = util.cwd0
    /\ DirIdle => dirstack = <<>> /\ cwd = Cwd

\* A call of unzip failed after its pushd and the stack is as before
C27_Witness ==
    /\ util.f = "unzip"
    /\ util.at = "returned"
    /\ util.pushed
    /\ util.ret = -1
    /\ dirstack = <<>>
    /\ cwd = Cwd

(***************************************************************************)
(* The archive reader alone: single-member extractions during the life of   *)
(* one IDA_SIARDmetadata object after the other.  z is the record [open_zips,*)
(* pending, unz]; a handle is a positive number, 0 is NULL.                  *)
(***************************************************************************)

\* get_open_zip_by_name(zipname, &isopen): the cache is keyed by the
\* canonical name
get_open_zip_by_name(z, zipname, wd) ==
    With(realpath_nocheck(zipname, wd), LAMBDA key :
        IF key \in DOMAIN z.open_zips
        THEN [isopen |-> TRUE, uf |-> z.open_zips[key].uf]
        ELSE [isopen |-> FALSE, uf |-> 0])

\* IDA_ZIP_add_open_zip(uf, zipname) and IDA_ZIP_add_file_to_index: the entry
\* of a newly opened archive with its index
IDA_ZIP_add_open_zip(z, uf, zipname, wd, index) ==
    [z EXCEPT !.open_zips =
        Put(z.open_zips, realpath_nocheck(zipname, wd), [uf |-> uf, index |-> index])]

\* IDA_ZIP_remove_open_zip(uf)
IDA_ZIP_remove_open_zip(z, uf) ==
    [z EXCEPT !.open_zips =
        [k \in {n \in DOMAIN z.open_zips : z.open_zips[n].uf # uf} |-> z.open_zips[k]]]

\* IDA_ZIP_add_zip_pending_to_close(uf)
IDA_ZIP_add_zip_pending_to_close(z, uf) == [z EXCEPT !.pending = z.pending \cup {uf}]

\* IDA_miniunz_close(uf): unzClose
IDA_miniunz_close(z, uf) ==
    [z EXCEPT !.unz = [h \in DOMAIN z.unz \ {uf} |-> z.unz[h]]]

\* IDA_miniunz_open(zipfilename): unzOpen64, NULL when the file is no archive
IDA_miniunz_open(z, fs, wd, zipfilename) ==
    With(realpath_nocheck(zipfilename, wd), LAMBDA zp :
        IF zipfilename = "" \/ zp \notin DOMAIN fs \/ fs[zp].k # "zip"
        THEN [uf |-> 0, z |-> z]
        ELSE With(CHOOSE h \in 1..(Cardinality(DOMAIN z.unz) + 1) : h \notin DOMAIN z.unz,
             LAMBDA h : [uf |-> h, z |-> [z EXCEPT !.unz = Put(z.unz, h, fs[zp].v)]]))

\* IDA_miniunz_create_index(uf): one entry for each member of the archive
IDA_miniunz_create_index(z, uf) == DOMAIN z.unz[uf]

\* IDA_miniunz_open_indexed(zipfilename): the cached handle, or a new one
\* that is cached and indexed
IDA_miniunz_open_indexed(z, fs, wd, zipfilename) ==
    With(get_open_zip_by_name(z, zipfilename, wd), LAMBDA c :
        IF c.isopen THEN [uf |-> c.uf, z |-> z]
        ELSE With(IDA_miniunz_open(z, fs, wd, zipfilename), LAMBDA o :
             IF o.uf = 0 THEN o
             ELSE [uf |-> o.uf,
                   z  |-> IDA_ZIP_add_open_zip(o.z, o.uf, zipfilename, wd,
                                               IDA_miniunz_create_index(o.z, o.uf))]))

\* A slip of IDA_miniunz_close_indexed: the archive is closed at once, as
\* IDA_miniunz_close does after a full extraction.
IDA_miniunz_close_indexed_now(z, uf) == IDA_miniunz_close(z, uf)

\* IDA_miniunz_close_indexed(uf)
IDA_miniunz_close_indexed(z, uf) == IDA_ZIP_add_zip_pending_to_close(z, uf)

\* IDA_miniunz_do_unzip(zipfilename, filename) for a filename that is not
\* NULL, in the working directory wd: the error, the reader and the files
IDA_miniunz_do_unzip(z, fs, wd, zipfilename, filename) ==
    With(IDA_miniunz_open_indexed(z, fs, wd, zipfilename), LAMBDA o :
        IF o.uf = 0 THEN [err |-> 1, uf |-> 0, z |-> o.z, files |-> fs]
        ELSE With(filename \in o.z.open_zips[realpath_nocheck(zipfilename, wd)].index
                     /\ o.uf \in DOMAIN o.z.unz,
             LAMBDA found :
             [err   |-> IF found THEN 0 ELSE 1,
              uf    |-> o.uf,
              z     |-> IDA_miniunz_close_indexed(o.z, o.uf),
              files |-> IF found
                        THEN Put(fs, realpath_nocheck(filename, wd), o.z.unz[o.uf][filename])
                        ELSE fs]))

\* IDA_minunz_close_all_open_zip: every pending handle leaves the cache and
\* is closed
RECURSIVE IDA_minunz_close_all_open_zip(_)
IDA_minunz_close_all_open_zip(z) ==
    IF z.pending = {} THEN z
    ELSE With(CHOOSE uf \in z.pending : TRUE, LAMBDA uf :
         IDA_minunz_close_all_open_zip(
            IDA_miniunz_close(
               IDA_ZIP_remove_open_zip([z EXCEPT !.pending = z.pending \ {uf}], uf), uf)))

\* The archives of this section: the SIARD, an archive inside it, a file that
\* is no archive
ZipFiles ==
    (SiardFile :> ZipFile(DirPayload)) @@ ("/d/bad.siard" :> BytesFile(<<0>>))

\* The archives a member is asked of, by the name unzipURI gives them
ZipNames == {SiardFile, "/d/../d/a.siard", "in.zip", "/d/bad.siard", "/d/none.zip"}

\* The members asked for
ZipMembers == {"header/metadata.xml", "in.zip", "x.txt", "none.xml"}

\* The state before the first IDA_siard2sql of the process
InitZip ==
    /\ argv = CommandLine(SiardFile, "")
    /\ cwd = Cwd
    /\ dirstack = <<>>
    /\ minizip = NoZip
    /\ files = ZipFiles
    /\ dirs = BaseDirs
    /\ mkdtemp_ok \in BOOLEAN
    /\ sink = "ok"
    /\ typecache = <<>>
    /\ tm_arg = ""
    /\ tm_ret = "none"
    /\ tm_hit = FALSE
    /\ util = NoCall
    /\ InitRun("idle")

\* IDA_siard2sql, line 2911: IDA_SIARDmetadata M(siardfilein)
IDA_SIARDmetadata_call ==
    /\ pc = "idle"
    /\ \E tmpdir \in {create_temp_dir(TmpDirOfRun)} :
          /\ M' = [siardURI |-> get_realpath(argv.siardfile),
                   tmpdir |-> tmpdir,
                   unzipmode |-> IF tmpdir = "" THEN "SIARD_FULL_UNZIP"
                                 ELSE "SIARD_FILE_BY_FILE_UNZIP",
                   loaded |-> FALSE,
                   root |-> NoMetadata.root]
          /\ dirs' = dirs \cup ({tmpdir} \ {""})
    /\ pc' = "run"
    /\ util' = [f |-> "IDA_SIARDmetadata", arg |-> <<>>, ret |-> 0, uf |-> 0,
                before |-> minizip, closes |-> 0]
    /\ UNCHANGED <<typeVars, argv, cwd, dirstack, minizip, files, mkdtemp_ok, sink,
                   calls, is, it, seen_tables, rep_tables, table_first_schema, iuk,
                   DataType_Table, C, ir, sqlout, ret, exit_status>>

\* unzipURI, line 876: IDA_unzip(zipfile, member) inside the pushd of the
\* workspace
IDA_unzip_call(zipfile, member) ==
    /\ pc = "run"
    /\ M.tmpdir # ""
    /\ \E r \in {IDA_miniunz_do_unzip(minizip, files, M.tmpdir, zipfile, member)} :
          /\ minizip' = r.z
          /\ files' = r.files
          /\ util' = [f |-> "IDA_unzip", arg |-> <<zipfile, member>>, ret |-> r.err,
                      uf |-> r.uf, before |-> minizip, closes |-> util.closes]
    /\ UNCHANGED <<typeVars, argv, cwd, dirstack, dirs, mkdtemp_ok, sink, runVars>>

\* ~IDA_SIARDmetadata, lines 2222-2231: rrm and IDA_unzip_close_all
IDA_SIARDmetadata_destructor ==
    /\ pc = "run"
    /\ files' = rrm_files(M.tmpdir, files)
    /\ dirs' = rrm_dirs(M.tmpdir, dirs)
    /\ minizip' = IDA_minunz_close_all_open_zip(minizip)
    /\ pc' = "idle"
    /\ util' = [f |-> "~IDA_SIARDmetadata", arg |-> <<>>, ret |-> 0, uf |-> 0,
                before |-> minizip, closes |-> util.closes + 1]
    /\ UNCHANGED <<typeVars, argv, cwd, dirstack, mkdtemp_ok, sink, M,
                   calls, is, it, seen_tables, rep_tables, table_first_schema, iuk,
                   DataType_Table, C, ir, sqlout, ret, exit_status>>

NextZip ==
    \/ IDA_SIARDmetadata_call
    \/ \E zipfile \in ZipNames : \E member \in ZipMembers : IDA_unzip_call(zipfile, member)
    \/ IDA_SIARDmetadata_destructor

SpecZip == InitZip /\ [][NextZip]_vars

-----------------------------------------------------------------------------
(* C28 *)

\* The handles of the cached archives
C28_Cached(z) == {z.open_zips[k].uf : k \in DOMAIN z.open_zips}

\* Outside the life of an IDA_SIARDmetadata object no archive is open, cached
\* or pending; at any time the open handles are the cached ones, one for each
\* name, and close_all has run once for every object destructed and not yet
\* for the one alive
C28_CacheState ==
    /\ pc = "idle" => minizip = NoZip
    /\ C28_Cached(minizip) = DOMAIN minizip.unz
    /\ \A j, k \in DOMAIN minizip.open_zips :
          minizip.open_zips[j].uf = minizip.open_zips[k].uf => j = k
    /\ minizip.pending \subseteq DOMAIN minizip.unz
    /\ util.f # "none" => util.closes = (IF pc = "run" THEN 0 ELSE 1)

\* An extraction from a cached archive uses the cached handle and opens
\* nothing; one from an archive not cached opens it, caches it and indexes
\* each of its members, or fails to open it and changes nothing; none closes
\* a handle, and the handle it used is pending
C28_Extraction ==
    (pc = "run" /\ pc' = "run" /\ util'.f = "IDA_unzip") =>
       LET key == realpath_nocheck(util'.arg[1], M.tmpdir) IN
       /\ DOMAIN minizip.unz \subseteq DOMAIN minizip'.unz
       /\ \A h \in DOMAIN minizip.unz : minizip'.unz[h] = minizip.unz[h]
       /\ util'.uf # 0 => util'.uf \in minizip'.pending
       /\ IF key \in DOMAIN minizip.open_zips
          THEN /\ util'.uf = minizip.open_zips[key].uf
               /\ minizip'.unz = minizip.unz
               /\ minizip'.open_zips = minizip.open_zips
          ELSE IF util'.uf = 0
               THEN /\ minizip' = minizip
                    /\ ~(key \in DOMAIN files /\ files[key].k = "zip")
               ELSE /\ util'.uf \notin DOMAIN minizip.unz
                    /\ DOMAIN minizip'.unz = DOMAIN minizip.unz \cup {util'.uf}
                    /\ DOMAIN minizip'.open_zips = DOMAIN minizip.open_zips \cup {key}
                    /\ minizip'.open_zips[key].uf = util'.uf
                    /\ minizip'.open_zips[key].index = DOMAIN files[key].v

\* The destructor closes every archive: nothing is left open, cached or
\* pending
C28_Teardown ==
    (pc = "run" /\ pc' = "idle") => minizip' = NoZip /\ util'.closes = util.closes + 1

\* C28: an archive read member by member is opened and indexed at its first
\* extraction only; later extractions use the cached handle, no extraction
\* closes a handle (it is recorded as pending), and the handles are closed by
\* close_all alone, which runs once for each IDA_SIARDmetadata object, at its
\* destruction, and leaves no archive open, cached or pending.
C28_OpenedOnceClosedAtTeardown ==
    /\ [](C28_CacheState)
    /\ [][C28_Extraction /\ C28_Teardown]_vars

\* A second extraction from the SIARD archive has used the handle the first
\* one opened, and another archive is open beside it
C28_Witness ==
    /\ util.f = "IDA_unzip"
    /\ util.ret = 0
    /\ util.uf # 0
    /\ realpath_nocheck(util.arg[1], M.tmpdir) \in DOMAIN util.before.open_zips
    /\ util.uf = util.before.open_zips[realpath_nocheck(util.arg[1], M.tmpdir)].uf
    /\ Cardinality(DOMAIN minizip.unz) = 2
    /\ minizip.pending = DOMAIN minizip.unz

-----------------------------------------------------------------------------
(* C29 *)

\* The files of the input SIARD: the archive, or the files of its directory
C29_InputFiles(fs) ==
    {p \in DOMAIN fs : p = SiardFile \/ is_prefix(SiardDir \o "/", p)}

\* C29: eager deletion removes files of the workspace of the run only: in no
\* step of a run, the runs on a directory and the runs whose workspace could
\* not be made included, does a file of the input SIARD (a table XML, a LOB
\* file of the file system) leave the file system.
C29_InputKept ==
    [][C29_InputFiles(files) \subseteq C29_InputFiles(files')]_vars

\* The same for the runs whose workspace was made
C29_InputKeptWithWorkspace ==
    [][mkdtemp_ok => C29_InputFiles(files) \subseteq C29_InputFiles(files')]_vars

-----------------------------------------------------------------------------
(* C30 *)

\* C30: every value the simple formatter appends for a column is a non-empty
\* SQL literal: no INSERT has an empty value between its separators, also not
\* for an element that is in the row with no file attribute and no text in a
\* column of affinity INTEGER, REAL or NUMERIC.
C30_NoEmptyValue ==
    pc = "rows" =>
       \A n \in LinesOf("INSERT INTO", is, it) :
          \A i \in 1..Len(sqlout[n].parts) :
             C.siard_coltype_v[i].typeSchema = "" => sqlout[n].parts[i] # ""

\* The same for the columns of affinity TEXT and BLOB and for the elements
\* with text
C30_NoEmptyValueOfText ==
    pc = "rows" =>
       \A n \in LinesOf("INSERT INTO", is, it) :
          \A i \in 1..Len(sqlout[n].parts) :
             LET cells == C8_Cells(C8_LoadedRows[sqlout[n].at[3]], i) IN
             /\ C.siard_coltype_v[i].typeSchema = ""
             /\ \/ C.col_simple_type[i] \notin {"INTEGER", "REAL", "NUMERIC"}
                \/ cells = <<>>
                \/ cells[1].text # ""
                \/ cells[1].file # ""
             => sqlout[n].parts[i] # ""
====
